---- MODULE Spec2Model ----
(***************************************************************************)
(* A model of the LineScript compiler core (src/lsc.cpp): the parser's     *)
(* overload registration, the type checker's signature collection,         *)
(* overload resolution and call checking, the optimizer's loop closed      *)
(* forms and block rewrites, and the C emitter's owned-handle cleanup.     *)
(* Every group of variables belongs to one pipeline stage; a specification *)
(* runs one stage and leaves the other groups idle.                        *)
(***************************************************************************)
EXTENDS Integers, Sequences, FiniteSets, TLC

VARIABLES
  \* ---- front end: Parser + TypeCheck::collect + TypeCheck::expr (calls)
  superuserMode_,     \* TypeCheck::superuserMode_
  pf,                 \* Program::f, the parsed functions in push order
  topFnOverloads_,    \* Parser::topFnOverloads_ of the parser of the current file
  topFnOverloadId_,   \* Parser::topFnOverloadId_
  classes_,           \* Parser::classes_ (names) of the parser of the current file
  nFiles,             \* input files parsed so far (one Parser each)
  nDecls,             \* declarations parsed so far
  sig_,               \* TypeCheck::sig_
  overloads_,         \* TypeCheck::overloads_
  warnings_,          \* TypeCheck::warnings_ (as kinds)
  stage,              \* "parse" | "check" | "error"
  lastCall,           \* the call expression TypeCheck::expr checked last
  nCalls,             \* call expressions checked so far
  \* ---- overload resolution as a function of its inputs
  rCands, rArgs, rSu, rOut,
  \* ---- a constant-range for loop: reference execution and optBlock's rewrite
  loopProg,           \* the SFor and the initial values of the locals around it
  refEnv,             \* the locals of the enclosing block while the loop itself runs
  loopI,              \* the loop variable of the running loop
  optPlan,            \* what optBlock's For case put in the place of the loop
  optEnv,             \* the locals of the enclosing block after the optimized code ran
  lOut,               \* lines printed by the compiled program
  lPc,                \* "compile" | "loop" | "optimized" | "print" | "done"
  \* ---- owned handles: TypeCheck::stmt and EmitC along one execution path
  emSu,               \* TypeCheck::superuserMode_ of this compilation
  emBlocks,           \* the open blocks around the statement being compiled, outermost first
  cleanupScopes_,     \* EmitC::cleanupScopes_
  emOwned,            \* the declare owned variables met so far on the path
  emLastDecl,         \* the last declare owned statement TypeCheck::stmt saw
  emRetRead,          \* the owned handle the returned expression read, and its frees by then
  emPc,               \* "emit" | "returned" | "done" | "error"
  \* ---- main: type-check, optimize, re-type-check of one function body
  oSu,                \* superuserMode of this compilation
  oProg,              \* Fn::b, the body of the function, as optimize() rewrites it
  oPass,              \* k of the pass loop of optimize()
  oCheck1,            \* outcome of tc.run(): error flag and warnings
  oCheck2,            \* outcome of tc2.run()
  oPc,                \* "type-check" | "optimize" | "re-type-check" | "done" | "rejected"
  \* ---- TypeCheck::stmt along the statements of one function body
  tSu,                \* TypeCheck::superuserMode_ of this compilation
  tRet,               \* Fn::ret of the function
  tLocals,            \* the locals l of TypeCheck::block
  tLoopDepth,         \* loopDepth of the statement being checked
  tLast,              \* the statement checked last and what it violated
  tWarn,              \* TypeCheck::warnings_ (as kinds)
  tN,                 \* statements checked so far
  tPc,                \* "check" | "error"
  \* ---- computeBuildConfigHash of two compilations
  hCfgA,              \* the options of the first compilation
  hCfgB,              \* the options of the second compilation
  hOutA,              \* config_hash of the first compilation
  hOutB,              \* config_hash of the second compilation
  hPc,                \* which of the two hashes are computed
  \* ---- the driver: parseOpt, the CLI flags of main and the entry wrapper
  flagDefs,           \* the names of the flag functions the program declares
  argv,               \* the command line after the program name
  argI,               \* the index of the next argument parseOpt reads
  cliGroupDepth,      \* the open '[' groups of the custom token stream
  opt,                \* the Opt record parseOpt fills
  activeCliFlags,     \* the flag names main hands to the emitter
  activeCliFlagCalls_,\* the flag symbols the wrapper calls
  wrapper,            \* the calls of the emitted entry wrapper, in order
  cliPc,              \* the driver's position
  \* ---- entry selection: EmitC::EmitC and the check of main
  pFns,               \* the functions of the program, p_.f
  oBuild,             \* o.build || o.run
  entry_,             \* the index in pFns of the chosen entry, 0 for nullptr
  entryError_,        \* the message kept when no entry is chosen
  enPc,               \* the position of the entry selection
  \* ---- the task runtime of the emitted C: ls_spawn, await, await_all
  ls_tasks,           \* the active bit of each task slot
  ls_task_count,      \* the ids handed out so far
  ls_task_free_ids,   \* the stack of released ids, top last
  ls_task_live_ids,   \* the live ids, ls_task_live_count of them
  ls_task_live_pos,   \* the position of each id in ls_task_live_ids
  thr,                \* the OS thread behind each slot: its state, its body and its position
  mainPc,             \* the runtime call the main thread is in
  mainOps,            \* the runtime calls the main thread has made
  spawnStamp,         \* the spawn time of the task in each slot
  spawnClock,         \* the number of spawns so far
  allLive,            \* the ids live when await_all was called, oldest spawn first
  allOrder,           \* the ids await_all has awaited, in order
  onlyPlain,          \* no spawned task calls the runtime itself
  \* ---- dead-store elimination and what the program prints
  dProg,              \* the function body before pruneDeadLocalStores
  dDyn,               \* the run-time value of the conditions that are no literals
  dPruned,            \* the function body after pruneDeadLocalStores
  dOutRef,            \* what the body prints before the pruning
  dOutOpt,            \* what the body prints after the pruning
  dPc,                \* the steps done: pruned, and the two runs
  \* ---- inlining of single-return functions by optE
  iFns,               \* the single-return functions of the program: parameters and return expression
  iOrig,              \* the call as written
  iExpr,              \* the expression optE works on
  iLtr,               \* the build evaluates operands and arguments left to right
  iRef,               \* the side effects of the call as written, in order
  iTrace,             \* the side effects of the optimized expression, in order
  iPc,                \* the position of optE
  \* ---- a constant-range for loop over the whole i64 range: optBlock, EmitC and the loop as written
  wLoop,              \* the loop: start, stop, step and the a, b of its body acc = acc + (a*i + b)
  wTc,                \* the trip count optBlock computed
  wHow,               \* what runs in the place of the loop
  wRt,                \* the count ls_trip_count_runtime returned, if it was called
  wI,                 \* the loop variable of the loop as written
  wIters,             \* the iterations of the loop as written so far
  wPc,                \* the position of the compilation and the run
  \* ---- main: compilations of one cache directory, one after the other
  ccFiles,            \* the typed-IR bundles of the cache directory: key and C text
  ccCmd,              \* the command line of the last compilation
  ccOut,              \* the C text the last compilation handed to finish()
  ccServed,           \* the last compilation read its C text from the cache
  ccRuns,             \* the compilations so far
  \* ---- optBlock: a short constant-range for loop replaced by copies of its body
  uLoop,              \* the loop: start, stop, step, body, and whether the enclosing block declares an i of its own
  uRep,               \* the statements optBlock leaves in the place of the loop
  uKind,              \* "for" (the loop stays) | "erased" | "unrolled"
  uErr,               \* the error of the type-check after optimize, "" for none
  uRef,               \* what the program as written prints
  uOut,               \* what the optimized program prints
  uPc,                \* the position of the compilation and the run
  \* ---- a call of an overloaded function through type-check, optimize and the second type-check
  rcFns,              \* the declarations of f in the order the parser registered them
  rcSu,               \* superuser mode
  rcCall,             \* the call: f is the symbol it names (ECall::f), a its argument expression
  rcFirst,            \* the symbol the first type-check wrote into the call, "" before it
  rcErr,              \* the CompileError of a type-check, "" for none
  rcPc                \* the position of main: "type-check" | "optimize" | "re-check" | "done" | "error"

sigVars == <<superuserMode_, pf, topFnOverloads_, topFnOverloadId_, classes_, nFiles,
             nDecls, sig_, overloads_, warnings_, stage, lastCall, nCalls>>
resVars == <<rCands, rArgs, rSu, rOut>>

loopVars == <<loopProg, refEnv, loopI, optPlan, optEnv, lOut, lPc>>

emitVars == <<emSu, emBlocks, cleanupScopes_, emOwned, emLastDecl, emRetRead, emPc>>

optVars == <<oSu, oProg, oPass, oCheck1, oCheck2, oPc>>

tcVars == <<tSu, tRet, tLocals, tLoopDepth, tLast, tWarn, tN, tPc>>

hashVars == <<hCfgA, hCfgB, hOutA, hOutB, hPc>>

cliVars == <<flagDefs, argv, argI, cliGroupDepth, opt, activeCliFlags, activeCliFlagCalls_, wrapper, cliPc>>

entryVars == <<pFns, oBuild, entry_, entryError_, enPc>>

taskVars == <<ls_tasks, ls_task_count, ls_task_free_ids, ls_task_live_ids, ls_task_live_pos, thr, mainPc, mainOps, spawnStamp, spawnClock, allLive, allOrder, onlyPlain>>

dseVars == <<dProg, dDyn, dPruned, dOutRef, dOutOpt, dPc>>

inlVars == <<iFns, iOrig, iExpr, iLtr, iRef, iTrace, iPc>>

widVars == <<wLoop, wTc, wHow, wRt, wI, wIters, wPc>>

cacheVars == <<ccFiles, ccCmd, ccOut, ccServed, ccRuns>>

unrollVars == <<uLoop, uRep, uKind, uErr, uRef, uOut, uPc>>

recheckVars == <<rcFns, rcSu, rcCall, rcFirst, rcErr, rcPc>>

vars == <<sigVars, resVars, loopVars, emitVars, optVars, tcVars, hashVars, cliVars, entryVars, taskVars, dseVars, inlVars, widVars, cacheVars, unrollVars, recheckVars>>
notResVars == <<sigVars, loopVars, emitVars, optVars, tcVars, hashVars, cliVars, entryVars, taskVars, dseVars, inlVars, widVars, cacheVars, unrollVars, recheckVars>>
notSigVars == <<resVars, loopVars, emitVars, optVars, tcVars, hashVars, cliVars, entryVars, taskVars, dseVars, inlVars, widVars, cacheVars, unrollVars, recheckVars>>
notLoopVars == <<sigVars, resVars, emitVars, optVars, tcVars, hashVars, cliVars, entryVars, taskVars, dseVars, inlVars, widVars, cacheVars, unrollVars, recheckVars>>
notEmitVars == <<sigVars, resVars, loopVars, optVars, tcVars, hashVars, cliVars, entryVars, taskVars, dseVars, inlVars, widVars, cacheVars, unrollVars, recheckVars>>
notOptVars == <<sigVars, resVars, loopVars, emitVars, tcVars, hashVars, cliVars, entryVars, taskVars, dseVars, inlVars, widVars, cacheVars, unrollVars, recheckVars>>
notTcVars == <<sigVars, resVars, loopVars, emitVars, optVars, hashVars, cliVars, entryVars, taskVars, dseVars, inlVars, widVars, cacheVars, unrollVars, recheckVars>>
notHashVars == <<sigVars, resVars, loopVars, emitVars, optVars, tcVars, cliVars, entryVars, taskVars, dseVars, inlVars, widVars, cacheVars, unrollVars, recheckVars>>
notCliVars == <<sigVars, resVars, loopVars, emitVars, optVars, tcVars, hashVars, entryVars, taskVars, dseVars, inlVars, widVars, cacheVars, unrollVars, recheckVars>>
notEntryVars == <<sigVars, resVars, loopVars, emitVars, optVars, tcVars, hashVars, cliVars, taskVars, dseVars, inlVars, widVars, cacheVars, unrollVars, recheckVars>>
notTaskVars == <<sigVars, resVars, loopVars, emitVars, optVars, tcVars, hashVars, cliVars, entryVars, dseVars, inlVars, widVars, cacheVars, unrollVars, recheckVars>>
notDseVars == <<sigVars, resVars, loopVars, emitVars, optVars, tcVars, hashVars, cliVars, entryVars, taskVars, inlVars, widVars, cacheVars, unrollVars, recheckVars>>
notInlVars == <<sigVars, resVars, loopVars, emitVars, optVars, tcVars, hashVars, cliVars, entryVars, taskVars, dseVars, widVars, cacheVars, unrollVars, recheckVars>>
notWidVars == <<sigVars, resVars, loopVars, emitVars, optVars, tcVars, hashVars, cliVars, entryVars, taskVars, dseVars, inlVars, cacheVars, unrollVars, recheckVars>>
notCacheVars == <<sigVars, resVars, loopVars, emitVars, optVars, tcVars, hashVars, cliVars, entryVars, taskVars, dseVars, inlVars, widVars, unrollVars, recheckVars>>
notUnrollVars == <<sigVars, resVars, loopVars, emitVars, optVars, tcVars, hashVars, cliVars, entryVars, taskVars, dseVars, inlVars, widVars, cacheVars, recheckVars>>
notRecheckVars == <<sigVars, resVars, loopVars, emitVars, optVars, tcVars, hashVars, cliVars, entryVars, taskVars, dseVars, inlVars, widVars, cacheVars, unrollVars>>

(***************************************************************************)
(* Bounds of the model.                                                    *)
(***************************************************************************)
MaxDecls == 2
MaxCalls == 1
MaxFiles == 2
MaxCands == 3
MaxStart == 1       \* for-range start in -MaxStart..MaxStart
MaxStop == 5        \* for-range stop in -1..MaxStop
MaxStep == 2        \* for-range step in -MaxStep..MaxStep, not 0
MaxCoef == 1        \* affine coefficients a, b in -MaxCoef..MaxCoef
MaxMod == 2         \* modulus in 1..MaxMod
MaxInit == 1        \* initial acc and state in 0..MaxInit
MaxOwned == 2       \* declare owned statements on a path
MaxDepth == 3       \* nesting of blocks, the function body included
MaxFrees == 2       \* free calls counted per handle
MaxStmts == 2       \* statements of a function body
MaxTcStmts == 3     \* statements type-checked along a path

(***************************************************************************)
(* The stages at rest: a specification that runs one stage starts the      *)
(* others here and never moves them.                                       *)
(***************************************************************************)
NoCall == [caller |-> "", callerThrows |-> <<>>, name |-> "", args |-> <<>>,
           spawn |-> FALSE, outcome |-> "none", symbol |-> "", calleeThrows |-> <<>>]

SigIdle ==
  /\ superuserMode_ = FALSE
  /\ pf = <<>>
  /\ topFnOverloads_ = <<>>
  /\ topFnOverloadId_ = 0
  /\ classes_ = {}
  /\ nFiles = 0
  /\ nDecls = 0
  /\ sig_ = <<>>
  /\ overloads_ = <<>>
  /\ warnings_ = {}
  /\ stage = "idle"
  /\ lastCall = NoCall
  /\ nCalls = 0

NoResult == [kind |-> "pending", best |-> 0, warn |-> FALSE]

ResIdle ==
  /\ rCands = <<>>
  /\ rArgs = <<>>
  /\ rSu = FALSE
  /\ rOut = NoResult

NoPlan == [kind |-> "none", n |-> 0, deltaAcc |-> 0, deltaState |-> 0, accVar |-> "",
           stateVar |-> ""]
NoEnv == [acc |-> 0, state |-> 0, i |-> 0]

LoopIdle ==
  /\ loopProg = <<>>
  /\ refEnv = NoEnv
  /\ optEnv = NoEnv
  /\ loopI = 0
  /\ optPlan = NoPlan
  /\ lOut = <<>>
  /\ lPc = "idle"

NoDecl == [ctor |-> "", accepted |-> FALSE, freeFn |-> "", depth |-> 0]

NoRead == [v |-> 0, frees |-> 0]

EmitIdle ==
  /\ emSu = FALSE
  /\ emBlocks = <<>>
  /\ cleanupScopes_ = <<>>
  /\ emOwned = <<>>
  /\ emLastDecl = NoDecl
  /\ emRetRead = NoRead
  /\ emPc = "idle"

NoCheck == [err |-> FALSE, warn |-> {}]

OptIdle ==
  /\ oSu = FALSE
  /\ oProg = <<>>
  /\ oPass = 0
  /\ oCheck1 = NoCheck
  /\ oCheck2 = NoCheck
  /\ oPc = "idle"

NoStmt == [k |-> "", n |-> "", e |-> "", violated |-> {}, ownedTarget |-> FALSE,
           ownedValue |-> FALSE]

TcIdle ==
  /\ tSu = FALSE
  /\ tRet = ""
  /\ tLocals = <<>>
  /\ tLoopDepth = 0
  /\ tLast = NoStmt
  /\ tWarn = {}
  /\ tN = 0
  /\ tPc = "idle"

HashIdle ==
  /\ hCfgA = <<>>
  /\ hCfgB = <<>>
  /\ hOutA = <<>>
  /\ hOutB = <<>>
  /\ hPc = {}

CliIdle ==
  /\ flagDefs = {}
  /\ argv = <<>>
  /\ argI = 0
  /\ cliGroupDepth = 0
  /\ opt = <<>>
  /\ activeCliFlags = <<>>
  /\ activeCliFlagCalls_ = <<>>
  /\ wrapper = <<>>
  /\ cliPc = "idle"

EntryIdle ==
  /\ pFns = <<>>
  /\ oBuild = FALSE
  /\ entry_ = 0
  /\ entryError_ = ""
  /\ enPc = "idle"

TaskIdle ==
  /\ ls_tasks = <<>>
  /\ ls_task_count = 0
  /\ ls_task_free_ids = <<>>
  /\ ls_task_live_ids = <<>>
  /\ ls_task_live_pos = <<>>
  /\ thr = <<>>
  /\ mainPc = [op |-> "off", id |-> 0]
  /\ mainOps = 0
  /\ spawnStamp = <<>>
  /\ spawnClock = 0
  /\ allLive = <<>>
  /\ allOrder = <<>>
  /\ onlyPlain = TRUE

DseIdle ==
  /\ dProg = <<>>
  /\ dDyn = FALSE
  /\ dPruned = <<>>
  /\ dOutRef = <<>>
  /\ dOutOpt = <<>>
  /\ dPc = {}

InlIdle ==
  /\ iFns = <<>>
  /\ iOrig = <<>>
  /\ iExpr = <<>>
  /\ iLtr = TRUE
  /\ iRef = <<>>
  /\ iTrace = <<>>
  /\ iPc = "idle"

WidIdle ==
  /\ wLoop = <<>>
  /\ wTc = 0
  /\ wHow = ""
  /\ wRt = <<>>
  /\ wI = 0
  /\ wIters = 0
  /\ wPc = "idle"

CacheIdle ==
  /\ ccFiles = {}
  /\ ccCmd = <<>>
  /\ ccOut = <<>>
  /\ ccServed = FALSE
  /\ ccRuns = 0

UnrollIdle ==
  /\ uLoop = <<>>
  /\ uRep = <<>>
  /\ uKind = ""
  /\ uErr = ""
  /\ uRef = <<>>
  /\ uOut = <<>>
  /\ uPc = "idle"

RecheckIdle ==
  /\ rcFns = <<>>
  /\ rcSu = FALSE
  /\ rcCall = <<>>
  /\ rcFirst = ""
  /\ rcErr = ""
  /\ rcPc = "idle"

(***************************************************************************)
(* Types and conversions (TypeCheck).                                      *)
(***************************************************************************)
isNum(t) == t \in {"I32", "I64", "F32", "F64"}

can(a, b) == (a = b) \/ (isNum(a) /\ isNum(b))

canSafeWiden(from, to) ==
  \/ from = to
  \/ from = "I32" /\ to \in {"I64", "F32", "F64"}
  \/ from = "I64" /\ to = "F64"
  \/ from = "F32" /\ to = "F64"

conversionCost(from, to) ==
  IF from = to THEN 0
  ELSE IF canSafeWiden(from, to) THEN 1
  ELSE -1

\* std::numeric_limits<int>::max(), the initial bestCost of resolveOverload
IntMax == 2147483647

\* The per-candidate cost loop of resolveOverload: the sum of the argument
\* costs, or -1 at the first argument that does not convert.
RECURSIVE CandCostFrom(_, _, _, _)
CandCostFrom(argTypes, params, i, cost) ==
  IF i > Len(argTypes) THEN cost
  ELSE LET c == conversionCost(argTypes[i], params[i])
       IN IF c < 0 THEN -1 ELSE CandCostFrom(argTypes, params, i + 1, cost + c)

\* A plausible slip in the loop: a tie replaces the best candidate instead
\* of flagging the ambiguity.
ResolveStepTieWins(acc, cand, idx, argTypes) ==
  IF Len(cand.sig.p) # Len(argTypes) THEN acc
  ELSE LET cost == CandCostFrom(argTypes, cand.sig.p, 1, 0)
       IN IF cost < 0 THEN acc
          ELSE IF cost <= acc.bestCost
                 THEN [bestCost |-> cost, best |-> idx, ambiguous |-> FALSE]
          ELSE acc

\* One iteration of the candidate loop of resolveOverload.
ResolveStep(acc, cand, idx, argTypes) ==
  IF Len(cand.sig.p) # Len(argTypes) THEN acc
  ELSE LET cost == CandCostFrom(argTypes, cand.sig.p, 1, 0)
       IN IF cost < 0 THEN acc
          ELSE IF cost < acc.bestCost
                 THEN [bestCost |-> cost, best |-> idx, ambiguous |-> FALSE]
          ELSE IF cost = acc.bestCost
                 THEN [acc EXCEPT !.ambiguous = TRUE]
          ELSE acc

RECURSIVE ResolveFrom(_, _, _, _)
ResolveFrom(cands, argTypes, i, acc) ==
  IF i > Len(cands) THEN acc
  ELSE ResolveFrom(cands, argTypes, i + 1, ResolveStep(acc, cands[i], i, argTypes))

\* TypeCheck::resolveOverload on one overload group: kind "none" is
\* std::nullopt, "error" the CompileError of an ambiguity, "ok" the returned
\* candidate cands[best]; warn is the superuser warning.
resolveOverload(cands, argTypes, su) ==
  LET acc == ResolveFrom(cands, argTypes, 1,
                         [bestCost |-> IntMax, best |-> 0, ambiguous |-> FALSE])
  IN IF acc.best = 0 THEN [kind |-> "none", best |-> 0, warn |-> FALSE]
     ELSE IF acc.ambiguous
            THEN IF su THEN [kind |-> "ok", best |-> acc.best, warn |-> TRUE]
                 ELSE [kind |-> "error", best |-> acc.best, warn |-> FALSE]
     ELSE [kind |-> "ok", best |-> acc.best, warn |-> FALSE]

(***************************************************************************)
(* Integer helpers of the optimizer. The model's values stay far inside    *)
(* int64, where every checked operation succeeds.                          *)
(***************************************************************************)
\* C++ integer division and remainder (truncation toward zero), d # 0.
Abs(x) == IF x < 0 THEN -x ELSE x

Sgn(x) == IF x < 0 THEN -1 ELSE IF x > 0 THEN 1 ELSE 0

CDiv(x, d) == Sgn(x) * Sgn(d) * (Abs(x) \div Abs(d))

CRem(x, d) == x - d * CDiv(x, d)

\* std::nullopt of an optional count or remainder, which is never negative
NoI64 == -1

tripCount(start, stop, step) ==
  IF step = 0 THEN NoI64
  ELSE IF step > 0
    THEN IF start >= stop THEN 0 ELSE CDiv(stop - start + step - 1, step)
  ELSE IF start <= stop THEN 0
  ELSE CDiv(start - stop + (-step) - 1, -step)

mul2Div2ExactI64(a, b) == CDiv(a * b, 2)

mul3Div6ExactI64(a, b, c) == CDiv(a * b * c, 6)

arithmeticSeriesSumI64(count, start, step) ==
  IF count <= 0 THEN 0
  ELSE mul2Div2ExactI64(count, 2 * start + (count - 1) * step)

modPosI64Const(x, m) ==
  IF m <= 0 THEN NoI64
  ELSE LET r == CRem(x, m) IN IF r < 0 THEN r + m ELSE r

RECURSIVE gcdSmallI64(_, _)
gcdSmallI64(a, b) == IF b = 0 THEN Abs(a) ELSE gcdSmallI64(Abs(b), Abs(a) % Abs(b))

\* The two summing loops of modLinearSeriesSumI64: cur runs from x0 in
\* steps of d, reduced by m, for count rounds.
RECURSIVE modCycleSum(_, _, _, _)
modCycleSum(cur, d, m, count) ==
  IF count <= 0 THEN 0
  ELSE LET nxt == cur + d
       IN cur + modCycleSum(IF nxt >= m THEN nxt - m ELSE nxt, d, m, count - 1)

modLinearSeriesSumI64(iters, start, step, a, b, m) ==
  IF iters <= 0 \/ m <= 0 THEN 0
  ELSE LET x0 == modPosI64Const(a * start + b, m)
           d == modPosI64Const(a * step, m)
       IN IF d = 0 THEN x0 * iters
          ELSE LET period == CDiv(m, gcdSmallI64(d, m))
                   full == CDiv(iters, period)
                   rem == iters - full * period
               IN full * modCycleSum(x0, d, m, period) + modCycleSum(x0, d, m, rem)

(***************************************************************************)
(* Front end: the parser's overload registration (one Parser per input     *)
(* file), TypeCheck::collect and the call cases of TypeCheck::expr.        *)
(***************************************************************************)
MakeFn(n, sourceName, p, ret, throws) ==
  [n |-> n, sourceName |-> sourceName, p |-> p, ret |-> ret, throws |-> throws]

mangleTopLevelOverloadSymbol(name, id) == "__ls_ovl_" \o name \o "_" \o ToString(id)

classMethodSymbol(cls, method, overloadIndex) ==
  IF overloadIndex = 0 THEN "__ls_cls_" \o cls \o "_" \o method
  ELSE "__ls_cls_" \o cls \o "_" \o method \o "_" \o ToString(overloadIndex)

kScriptEntryName == "__linescript_script_main"

\* What the modelled programs declare.
FnNames == {"f", "m"}
ClassNames == {"A", "B"}
FnParamLists == {<<>>, <<"I64">>, <<"F64">>}
ThrowsLists == {<<>>, <<"X">>}
\* Parameter lists of the overloads of method m in a class body.
MethodLists == {<< <<>> >>, << <<>>, <<"I64">> >>, << <<>>, <<>> >>}
CallArgLists == {<<>>, <<"I32">>, <<"I64">>, <<"F64">>}

\* A new Parser: what main constructs for each input file.
FreshParser ==
  /\ topFnOverloads_' = [n \in FnNames |-> <<>>]
  /\ topFnOverloadId_' = 0
  /\ classes_' = {}

SigInit ==
  /\ superuserMode_ \in BOOLEAN
  /\ pf = <<>>
  /\ topFnOverloads_ = [n \in FnNames |-> <<>>]
  /\ topFnOverloadId_ = 0
  /\ classes_ = {}
  /\ nFiles = 1
  /\ nDecls = 0
  /\ sig_ = <<>>
  /\ overloads_ = <<>>
  /\ warnings_ = {}
  /\ stage = "parse"
  /\ lastCall = NoCall
  /\ nCalls = 0

\* CompileError: the compilation stops.
Fail ==
  /\ stage' = "error"
  /\ UNCHANGED <<superuserMode_, pf, topFnOverloads_, topFnOverloadId_, classes_, nFiles,
                 nDecls, sig_, overloads_, warnings_, lastCall, nCalls>>

\* Parser: a top-level function declaration, registered by
\* registerTopLevelOverload and pushed to the program.
ParseFn(name, ps, ret, th) ==
  /\ stage = "parse"
  /\ nDecls < MaxDecls
  /\ LET decls == topFnOverloads_[name]
     IN IF \E i \in DOMAIN decls : decls[i].params = ps
          THEN Fail
          ELSE LET mangled == decls # <<>>
                   sym == IF mangled
                            THEN mangleTopLevelOverloadSymbol(name, topFnOverloadId_ + 1)
                            ELSE name
               IN /\ topFnOverloadId_' = IF mangled THEN topFnOverloadId_ + 1
                                         ELSE topFnOverloadId_
                  /\ topFnOverloads_' =
                       [topFnOverloads_ EXCEPT ![name] =
                          Append(decls, [params |-> ps, symbol |-> sym])]
                  /\ pf' = Append(pf, MakeFn(sym, name, ps, ret, th))
                  /\ nDecls' = nDecls + 1
                  /\ UNCHANGED <<superuserMode_, classes_, nFiles, sig_, overloads_,
                                 warnings_, stage, lastCall, nCalls>>
  /\ UNCHANGED notSigVars

\* The functions parseClass generates for the instance methods named m of
\* class cls: symbol by overload index, source name the bare method name,
\* parameter list led by the receiver.
MethodFns(cls, methods) ==
  [k \in DOMAIN methods |->
     MakeFn(classMethodSymbol(cls, "m", k - 1), "m", <<"I64">> \o methods[k], "Void", <<>>)]

\* Parser::parseClass: a class with instance methods named m and no
\* constructor of its own; the generated constructor is pushed last.
ParseClass(cls, methods) ==
  /\ stage = "parse"
  /\ nDecls < MaxDecls
  /\ IF cls \in classes_
       THEN Fail
     ELSE IF \E i, j \in DOMAIN methods : i < j /\ methods[i] = methods[j]
       THEN Fail
     ELSE /\ classes_' = classes_ \cup {cls}
          /\ pf' = pf \o MethodFns(cls, methods) \o <<MakeFn(cls, cls, <<>>, "I64", <<>>)>>
          /\ nDecls' = nDecls + 1
          /\ UNCHANGED <<superuserMode_, topFnOverloads_, topFnOverloadId_, nFiles, sig_,
                         overloads_, warnings_, stage, lastCall, nCalls>>
  /\ UNCHANGED notSigVars

\* main: the next input file gets a Parser of its own.
NextFile ==
  /\ stage = "parse"
  /\ nFiles < MaxFiles
  /\ nDecls > 0
  /\ nFiles' = nFiles + 1
  /\ FreshParser
  /\ UNCHANGED <<superuserMode_, pf, nDecls, sig_, overloads_, warnings_, stage, lastCall,
                 nCalls>>
  /\ UNCHANGED notSigVars

(***************************************************************************)
(* SpecResolve: resolveOverload applied to an overload group, an argument  *)
(* type list and a mode drawn from bounded sets.                           *)
(***************************************************************************)
Types == {"I32", "I64", "F64", "Str"}

RECURSIVE SeqsUpTo(_, _)
SeqsUpTo(S, n) ==
  IF n = 0 THEN {<<>>}
  ELSE LET shorter == SeqsUpTo(S, n - 1)
       IN shorter \cup {Append(q, x) : q \in {r \in shorter : Len(r) = n - 1}, x \in S}

\* Parameter lists of the candidates and argument lists of the calls.
ParamLists == {<<>>, <<"I64">>, <<"F64">>, <<"I64", "F64">>, <<"F64", "I64">>, <<"I32", "I64">>}
ArgLists == {<<>>, <<"I32">>, <<"I64">>, <<"F64">>, <<"Str">>, <<"I32", "I32">>, <<"I64", "F64">>}

MkCand(sym, ps, r, th) == [symbol |-> sym, sig |-> [p |-> ps, r |-> r, throws |-> th]]

ResInit ==
  /\ rCands \in {[i \in DOMAIN q |-> MkCand("f", q[i], "Void", <<>>)] :
                   q \in SeqsUpTo(ParamLists, MaxCands)}
  /\ rArgs \in ArgLists
  /\ rSu \in BOOLEAN
  /\ rOut = NoResult

Resolve ==
  /\ rOut.kind = "pending"
  /\ rOut' = resolveOverload(rCands, rArgs, rSu)
  /\ UNCHANGED <<rCands, rArgs, rSu>>
  /\ UNCHANGED notResVars

SpecResolveInit == ResInit /\ SigIdle /\ LoopIdle /\ EmitIdle /\ OptIdle /\ TcIdle /\ HashIdle /\ CliIdle /\ EntryIdle /\ TaskIdle /\ DseIdle /\ InlIdle /\ WidIdle /\ CacheIdle /\ UnrollIdle /\ RecheckIdle

SpecResolveNext == Resolve

SpecResolve == SpecResolveInit /\ [][SpecResolveNext]_vars

\* The candidates of the group a call with these argument types can use:
\* same arity and every argument converts by a safe widening.
Viable(cands, argTypes) ==
  {i \in DOMAIN cands :
     /\ Len(cands[i].sig.p) = Len(argTypes)
     /\ \A j \in DOMAIN argTypes : conversionCost(argTypes[j], cands[i].sig.p[j]) >= 0}

\* Number of arguments of a viable candidate that need a widening: its cost.
WideningCount(cands, argTypes, i) ==
  Cardinality({j \in DOMAIN argTypes : argTypes[j] # cands[i].sig.p[j]})

Cheapest(cands, argTypes) ==
  {i \in Viable(cands, argTypes) :
     \A k \in Viable(cands, argTypes) :
       WideningCount(cands, argTypes, i) <= WideningCount(cands, argTypes, k)}

\* C8: overload resolution discards the candidates some argument cannot be
\* converted to, picks the candidate with the strictly smallest summed
\* conversion cost, reports an ambiguity error on a tie for the smallest cost,
\* and in superuser mode answers a tie with the first registered cheapest
\* candidate and a warning.
C8_Resolution ==
  rOut.kind # "pending" =>
    LET best == Cheapest(rCands, rArgs)
    IN /\ (Viable(rCands, rArgs) = {}) <=> (rOut.kind = "none")
       /\ Cardinality(best) = 1 =>
            rOut.kind = "ok" /\ rOut.best \in best /\ ~rOut.warn
       /\ Cardinality(best) >= 2 /\ ~rSu => rOut.kind = "error"
       /\ Cardinality(best) >= 2 /\ rSu =>
            /\ rOut.kind = "ok"
            /\ rOut.warn
            /\ rOut.best \in best
            /\ \A k \in best : rOut.best <= k

\* A superuser tie between the second and third candidate of a group whose
\* first candidate costs more.
C8_Witness ==
  /\ rOut.kind = "ok"
  /\ rOut.warn
  /\ rOut.best = 2
  /\ 1 \in Viable(rCands, rArgs)

(***************************************************************************)
(* SpecSig: parse the declarations of one or several files, collect the    *)
(* signatures, then type-check call expressions.                           *)
(***************************************************************************)
\* The slice of TypeCheck::addBuiltins the modelled programs can call.
Builtins ==
  << MakeFn("await", "", <<"I64">>, "Void", <<>>),
     MakeFn("await_all", "", <<>>, "Void", <<>>),
     MakeFn("clock_ms", "", <<>>, "I64", <<>>) >>

\* TypeCheck::addSig on the collection state acc = [sig, ov, warn, err];
\* err is the CompileError of a duplicate symbol, which ends collection.
addSig(acc, name, params, ret, throws, alias, su) ==
  IF acc.err THEN acc
  ELSE IF name \in DOMAIN acc.sig /\ ~su THEN [acc EXCEPT !.err = TRUE]
  ELSE LET sg == [p |-> params, r |-> ret, throws |-> throws]
           group == IF alias = "" THEN name ELSE alias
           old == IF group \in DOMAIN acc.ov THEN acc.ov[group] ELSE <<>>
       IN [sig |-> (name :> sg) @@ acc.sig,
           ov |-> (group :> Append(old, [symbol |-> name, sig |-> sg])) @@ acc.ov,
           warn |-> IF name \in DOMAIN acc.sig
                      THEN acc.warn \cup {"duplicate function"}
                      ELSE acc.warn,
           err |-> FALSE]

\* The loop of TypeCheck::collect over the functions fs.
RECURSIVE collectFrom(_, _, _, _)
collectFrom(fs, i, acc, su) ==
  IF i > Len(fs) THEN acc
  ELSE LET f == fs[i]
           alias == IF f.sourceName = "" THEN f.n ELSE f.sourceName
       IN collectFrom(fs, i + 1, addSig(acc, f.n, f.p, f.ret, f.throws, alias, su), su)

collect(fs, su) ==
  LET builtins == collectFrom([i \in DOMAIN Builtins |->
                                 [Builtins[i] EXCEPT !.sourceName = Builtins[i].n]],
                              1, [sig |-> <<>>, ov |-> <<>>, warn |-> {}, err |-> FALSE], su)
  IN collectFrom(fs, 1, builtins, su)

\* main after the last file: the top-level statements become the script
\* entry function, then TypeCheck::collect runs over the whole program.
Collect ==
  /\ stage = "parse"
  /\ nDecls > 0
  /\ LET program == Append(pf, MakeFn(kScriptEntryName, "", <<>>, "Void", <<>>))
         acc == collect(program, superuserMode_)
     IN /\ pf' = program
        /\ sig_' = acc.sig
        /\ overloads_' = acc.ov
        /\ warnings_' = acc.warn
        /\ stage' = IF acc.err THEN "error" ELSE "check"
  /\ UNCHANGED <<superuserMode_, topFnOverloads_, topFnOverloadId_, classes_, nFiles,
                 nDecls, lastCall, nCalls>>
  /\ UNCHANGED notSigVars

\* The candidate a call of name with these argument types binds to:
\* resolveOverload on the group, else the signature registered under the
\* very name. kind is "ok", "error" (ambiguity) or "unknown".
callCandidate(name, argTypes) ==
  LET r == IF name \in DOMAIN overloads_
             THEN resolveOverload(overloads_[name], argTypes, superuserMode_)
             ELSE [kind |-> "none", best |-> 0, warn |-> FALSE]
  IN IF r.kind = "error" THEN [kind |-> "error", symbol |-> "", sig |-> <<>>, warn |-> FALSE]
     ELSE IF r.kind = "ok"
       THEN [kind |-> "ok", symbol |-> overloads_[name][r.best].symbol,
             sig |-> overloads_[name][r.best].sig, warn |-> r.warn]
     ELSE IF name \in DOMAIN sig_
       THEN [kind |-> "ok", symbol |-> name, sig |-> sig_[name], warn |-> FALSE]
     ELSE [kind |-> "unknown", symbol |-> "", sig |-> <<>>, warn |-> FALSE]

Range(q) == {q[i] : i \in DOMAIN q}

\* The failed requirements of the generic call case, as warning kinds.
genericCallFailures(cand, argTypes, throwsAllowed) ==
  (IF \E x \in Range(cand.sig.throws) : x \notin throwsAllowed
     THEN {"throws contract"} ELSE {})
  \cup (IF Len(cand.sig.p) # Len(argTypes) THEN {"arity"} ELSE {})
  \cup (IF \E i \in DOMAIN argTypes :
             i <= Len(cand.sig.p) /\ ~can(argTypes[i], cand.sig.p[i])
          THEN {"arg conversion"} ELSE {})

\* The failed requirements of the spawn case on its resolved target.
spawnCallFailures(cand, argTypes, throwsAllowed) ==
  (IF cand.sig.p # <<>> THEN {"spawn target parameters"} ELSE {})
  \cup (IF cand.sig.r # "Void" THEN {"spawn target return"} ELSE {})

\* A call expression checked: a failed requirement is a CompileError, or in
\* superuser mode a warning.
Checked(caller, name, argTypes, isSpawn, cand, failures) ==
  LET bad == cand.kind = "error" \/ (~superuserMode_ /\ failures # {})
  IN /\ lastCall' = [caller |-> pf[caller].n, callerThrows |-> pf[caller].throws,
                     name |-> name, args |-> argTypes, spawn |-> isSpawn,
                     outcome |-> IF bad THEN "rejected" ELSE "accepted",
                     symbol |-> cand.symbol,
                     calleeThrows |-> IF cand.kind = "ok" THEN cand.sig.throws ELSE <<>>]
     /\ nCalls' = nCalls + 1
     /\ stage' = IF bad THEN "error" ELSE stage
     /\ warnings_' = IF bad THEN warnings_
                     ELSE warnings_ \cup failures
                          \cup (IF cand.warn THEN {"ambiguous call"} ELSE {})
     /\ UNCHANGED <<superuserMode_, pf, topFnOverloads_, topFnOverloadId_, classes_,
                    nFiles, nDecls, sig_, overloads_>>

\* TypeCheck::expr, generic call case, on a call name(args) in the body of
\* function caller.
CheckCall(caller, name, argTypes) ==
  /\ stage = "check"
  /\ nCalls < MaxCalls
  /\ LET cand == callCandidate(name, argTypes)
         failures == IF cand.kind = "ok"
                       THEN genericCallFailures(cand, argTypes, Range(pf[caller].throws))
                     ELSE IF cand.kind = "unknown" THEN {"unknown function"}
                     ELSE {}
     IN Checked(caller, name, argTypes, FALSE, cand, failures)
  /\ UNCHANGED notSigVars

\* TypeCheck::expr, spawn case, on spawn(name()) in the body of function
\* caller.
CheckSpawn(caller, name) ==
  /\ stage = "check"
  /\ nCalls < MaxCalls
  /\ LET cand == callCandidate(name, <<>>)
         failures == IF cand.kind = "ok"
                       THEN spawnCallFailures(cand, <<>>, Range(pf[caller].throws))
                     ELSE IF cand.kind = "unknown" THEN {"unknown function"}
                     ELSE {}
     IN Checked(caller, name, <<>>, TRUE, cand, failures)
  /\ UNCHANGED notSigVars

SpecSigInit == SigInit /\ ResIdle /\ LoopIdle /\ EmitIdle /\ OptIdle /\ TcIdle /\ HashIdle /\ CliIdle /\ EntryIdle /\ TaskIdle /\ DseIdle /\ InlIdle /\ WidIdle /\ CacheIdle /\ UnrollIdle /\ RecheckIdle

SpecSigNext ==
  \/ \E name \in FnNames, ps \in FnParamLists, th \in ThrowsLists :
       ParseFn(name, ps, "Void", th)
  \/ \E cls \in ClassNames, methods \in MethodLists : ParseClass(cls, methods)
  \/ NextFile
  \/ Collect
  \/ \E caller \in DOMAIN pf, name \in FnNames, argTypes \in CallArgLists :
       CheckCall(caller, name, argTypes)
  \/ \E caller \in DOMAIN pf, name \in FnNames \cup {"await_all"} : CheckSpawn(caller, name)

SpecSig == SpecSigInit /\ [][SpecSigNext]_vars

\* C9: once the signatures are collected, no overload group holds two
\* entries with the same parameter-type list.
C9_NoDuplicateParamLists ==
  stage = "check" =>
    \A g \in DOMAIN overloads_ :
      \A i, j \in DOMAIN overloads_[g] :
        i # j => overloads_[g][i].sig.p # overloads_[g][j].sig.p

\* C10: outside superuser mode an accepted call, spawn targets included, of
\* a function that declares throws X sits in a function that declares
\* throws X itself.
C10_ThrowsContract ==
  (~superuserMode_ /\ lastCall.outcome = "accepted") =>
    \A x \in Range(lastCall.calleeThrows) : x \in Range(lastCall.callerThrows)

(***************************************************************************)
(* SpecLoop: a for loop over a constant range whose body is one or two     *)
(* assignments of the shape n = n + other, in a block that declares acc,   *)
(* state and i before the loop and prints acc and state after it. The loop *)
(* is run as the emitted C runs it, and optBlock's For case is applied to  *)
(* it and its result run.                                                  *)
(***************************************************************************)
\* Expressions of the loop bodies: a variable, a*i + b in the loop variable
\* i, and (a*i + b) % m.
EVar(n) == [k |-> "Var", n |-> n, a |-> 0, b |-> 0, m |-> 0]
EAffine(a, b) == [k |-> "Affine", n |-> "", a |-> a, b |-> b, m |-> 0]
EMod(a, b, m) == [k |-> "Mod", n |-> "", a |-> a, b |-> b, m |-> m]

\* The assignment n = n + other.
SAssignPlus(n, other) == [n |-> n, other |-> other]

exprHasVarName(e, name) ==
  IF e.k = "Var" THEN e.n = name ELSE name = "i" /\ e.a # 0

\* The value of an expression of the body under the locals env; % is the
\* % of the emitted C.
evalExpr(e, env) ==
  IF e.k = "Var" THEN env[e.n]
  ELSE IF e.k = "Affine" THEN e.a * env.i + e.b
  ELSE CRem(e.a * env.i + e.b, e.m)

RECURSIVE execBody(_, _, _)
execBody(body, k, env) ==
  IF k > Len(body) THEN env
  ELSE execBody(body, k + 1,
                [env EXCEPT ![body[k].n] = env[body[k].n] + evalExpr(body[k].other, env)])

Coefs == -MaxCoef..MaxCoef
Inits == 0..MaxInit
OuterI0 == 100

LoopBodies ==
  {<<SAssignPlus("acc", EVar("state")), SAssignPlus("state", EAffine(a, b))>> :
     a \in Coefs, b \in Coefs}
  \cup {<<SAssignPlus("state", EAffine(a, b)), SAssignPlus("acc", EVar("state"))>> :
          a \in Coefs, b \in Coefs}
  \cup {<<SAssignPlus("acc", EAffine(a, b))>> : a \in Coefs, b \in Coefs}
  \cup {<<SAssignPlus("acc", EMod(a, b, m))>> : a \in Coefs, b \in Coefs, m \in 1..MaxMod}
  \cup {<<SAssignPlus("i", EAffine(0, b))>> : b \in Coefs}

\* A body that assigns the loop variable keeps the loop finite when it moves
\* the variable in the direction of the step.
Terminates(body, step) ==
  \A k \in DOMAIN body : body[k].n = "i" => body[k].other.b * step >= 0

\* A loop program: the range, the body and the values of acc and state before
\* the loop; a body of one statement never touches state.
LoopProg(st, en, sp, body, a0, s0) ==
  [start |-> st, stop |-> en, step |-> sp, body |-> body, acc0 |-> a0, state0 |-> s0]

LoopInit ==
  /\ \E st \in -MaxStart..MaxStart, en \in -1..MaxStop, sp \in (-MaxStep..MaxStep) \ {0},
        body \in LoopBodies, a0 \in Inits, s0 \in Inits :
       /\ Terminates(body, sp)
       /\ Len(body) = 1 => s0 = 0
       /\ loopProg = LoopProg(st, en, sp, body, a0, s0)
  /\ refEnv = [acc |-> loopProg.acc0, state |-> loopProg.state0, i |-> OuterI0]
  /\ optEnv = [acc |-> loopProg.acc0, state |-> loopProg.state0, i |-> OuterI0]
  /\ loopI = loopProg.start
  /\ optPlan = NoPlan
  /\ lOut = <<>>
  /\ lPc = "compile"

\* A slip in the weighted sum of the pair fold: the quadratic term dropped.
pairCoupledGwLinearOnly(a, b, st, sp, N) ==
  (a * st + b) * mul2Div2ExactI64(N, N - 1)

\* tryFoldPair's gw: c0 * k1 + c1 * k2 with c0 = a*start + b, c1 = a*step,
\* k1 = N(N-1)/2 and k2 = N(N-1)(N-2)/6.
pairCoupledGw(a, b, st, sp, N) ==
  LET k1 == mul2Div2ExactI64(N, N - 1)
      k2 == mul3Div6ExactI64(N, N - 1, N - 2)
      c0 == a * st + b
      c1 == a * sp
  IN c0 * k1 + c1 * k2

\* std::nullopt / false of a fold that does not apply
NoFold == [NoPlan EXCEPT !.kind = "nullopt"]

\* tryFoldPair(acc, state) of optBlock on two assignments of the body: the
\* replacement, or NoFold when the pair is not of the shape.
tryFoldPair(acc, state, st, sp, N) ==
  IF \/ acc.other.k # "Var"
     \/ acc.other.n # state.n
     \/ exprHasVarName(state.other, acc.n)
     \/ exprHasVarName(state.other, state.n)
     \/ state.other.k # "Affine"
    THEN NoFold
  ELSE [kind |-> "pair", n |-> N,
        deltaAcc |-> pairCoupledGw(state.other.a, state.other.b, st, sp, N),
        deltaState |-> state.other.a * arithmeticSeriesSumI64(N, st, sp)
                       + state.other.b * N,
        accVar |-> acc.n, stateVar |-> state.n]

\* The single-reduction case of optBlock on the one assignment of the body.
foldSingle(as, st, sp, N) ==
  IF exprHasVarName(as.other, as.n) \/ as.other.k = "Var" THEN NoFold
  ELSE IF as.other.k = "Mod" /\ as.other.m > 0
    THEN [kind |-> "mod", n |-> N,
          deltaAcc |-> modLinearSeriesSumI64(N, st, sp, as.other.a, as.other.b, as.other.m),
          deltaState |-> 0, accVar |-> as.n, stateVar |-> ""]
  ELSE IF as.other.k = "Affine"
    THEN LET sumIdx == CDiv(N * (2 * st + (N - 1) * sp), 2)
         IN [kind |-> "affine", n |-> N,
             deltaAcc |-> as.other.a * sumIdx + as.other.b * N,
             deltaState |-> 0, accVar |-> as.n, stateVar |-> ""]
  ELSE NoFold

\* What the For case of optBlock leaves in the place of the loop.
optFor(lp) ==
  LET tc == tripCount(lp.start, lp.stop, lp.step)
      kept == [NoPlan EXCEPT !.kind = "kept"]
  IN IF tc = NoI64 THEN kept
     ELSE IF tc = 0 THEN [NoPlan EXCEPT !.kind = "erased"]
     ELSE IF Len(lp.body) = 2
       THEN LET first == tryFoldPair(lp.body[1], lp.body[2], lp.start, lp.step, tc)
                second == tryFoldPair(lp.body[2], lp.body[1], lp.start, lp.step, tc)
            IN IF first # NoFold THEN first ELSE IF second # NoFold THEN second ELSE kept
     ELSE LET single == foldSingle(lp.body[1], lp.start, lp.step, tc)
          IN IF single # NoFold THEN single ELSE kept

\* optimize(): the loop of the program goes through optBlock.
OptimizeFor ==
  /\ lPc = "compile"
  /\ optPlan' = optFor(loopProg)
  /\ lPc' = "loop"
  /\ UNCHANGED <<loopProg, refEnv, loopI, optEnv, lOut>>
  /\ UNCHANGED notLoopVars

\* The condition of the emitted C for statement.
loopCond(lp, i) == IF lp.step > 0 THEN i < lp.stop ELSE i > lp.stop

\* One round of the loop as emitted: the body runs on the locals with the
\* loop's own variable i in scope, then i advances by the step.
LoopIter ==
  /\ lPc = "loop"
  /\ loopCond(loopProg, loopI)
  /\ LET after == execBody(loopProg.body, 1, [refEnv EXCEPT !.i = loopI])
     IN /\ refEnv' = [after EXCEPT !.i = refEnv.i]
        /\ loopI' = after.i + loopProg.step
  /\ UNCHANGED <<loopProg, optPlan, optEnv, lOut, lPc>>
  /\ UNCHANGED notLoopVars

LoopExit ==
  /\ lPc = "loop"
  /\ ~loopCond(loopProg, loopI)
  /\ lPc' = "optimized"
  /\ UNCHANGED <<loopProg, refEnv, loopI, optPlan, optEnv, lOut>>
  /\ UNCHANGED notLoopVars

\* The locals after the statements optBlock put in the place of the loop
\* ran: acc = acc + (state * N + gw) before state = state + deltaY for a
\* pair, n = n + delta for a single reduction, nothing for an erased loop,
\* the loop itself when it was kept.
runPlan(plan, env, loopResult) ==
  IF plan.kind = "erased" THEN env
  ELSE IF plan.kind = "pair"
    THEN LET env1 == [env EXCEPT ![plan.accVar] =
                        env[plan.accVar] + (env[plan.stateVar] * plan.n + plan.deltaAcc)]
         IN [env1 EXCEPT ![plan.stateVar] = env1[plan.stateVar] + plan.deltaState]
  ELSE IF plan.kind \in {"affine", "mod"}
    THEN [env EXCEPT ![plan.accVar] = env[plan.accVar] + plan.deltaAcc]
  ELSE loopResult

RunOptimized ==
  /\ lPc = "optimized"
  /\ optEnv' = runPlan(optPlan, optEnv, refEnv)
  /\ lPc' = "print"
  /\ UNCHANGED <<loopProg, refEnv, loopI, optPlan, lOut>>
  /\ UNCHANGED notLoopVars

\* println(acc); println(state) of the compiled program.
Println ==
  /\ lPc = "print"
  /\ lOut' = <<optEnv.acc, optEnv.state>>
  /\ lPc' = "done"
  /\ UNCHANGED <<loopProg, refEnv, loopI, optPlan, optEnv>>
  /\ UNCHANGED notLoopVars

SpecLoopInit == LoopInit /\ SigIdle /\ ResIdle /\ EmitIdle /\ OptIdle /\ TcIdle /\ HashIdle /\ CliIdle /\ EntryIdle /\ TaskIdle /\ DseIdle /\ InlIdle /\ WidIdle /\ CacheIdle /\ UnrollIdle /\ RecheckIdle

SpecLoopNext == OptimizeFor \/ LoopIter \/ LoopExit \/ RunOptimized \/ Println

SpecLoop == SpecLoopInit /\ [][SpecLoopNext]_vars

\* C3: a loop folded as a pair-coupled reduction, with the two assignments
\* in either order, leaves acc and state as running the body N times does.
C3_PairCoupledEquivalence ==
  (lPc = "done" /\ optPlan.kind = "pair") =>
    optEnv.acc = refEnv.acc /\ optEnv.state = refEnv.state

\* C4: a loop folded as a modular-linear reduction leaves acc as the loop
\* with the language's % does, negative a*i + b included.
C4_ModLinearEquivalence ==
  (lPc = "done" /\ optPlan.kind = "mod") => optEnv = refEnv

\* C5: a loop folded as a single affine reduction adds a*S1 + b*N and leaves
\* the locals as the loop does; a loop of zero trips changes nothing.
C5_AffineEquivalence ==
  (lPc = "done" /\ optPlan.kind \in {"affine", "erased"}) => optEnv = refEnv

ScenarioD ==
  /\ loopProg.start = 0 /\ loopProg.stop = 5 /\ loopProg.step = 1
  /\ loopProg.acc0 = 0 /\ loopProg.state0 = 0
  /\ loopProg.body = <<SAssignPlus("acc", EVar("state")), SAssignPlus("state", EAffine(1, 1))>>

\* C6 as stated: scenario D prints 10 and then 15.
C6_ScenarioD_Prints10 ==
  (lPc = "done" /\ ScenarioD) => lOut = <<10, 15>>

\* C6: scenario D prints 20 and then 15, with the loop run as written
\* (acc = 0+0+1+3+6+10) and with its pair-coupled replacement.
C6_ScenarioD ==
  (lPc = "done" /\ ScenarioD) =>
    /\ lOut = <<20, 15>>
    /\ refEnv.acc = 20 /\ refEnv.state = 15

C6_Witness == lPc = "done" /\ ScenarioD /\ optPlan.kind = "pair"

(***************************************************************************)
(* SpecEmit: the statements of one function body, followed along one       *)
(* execution path. Each statement is type-checked (TypeCheck::stmt),       *)
(* emitted (EmitC::stmt) and its emitted C run; the free calls the path    *)
(* executes are counted per owned handle.                                  *)
(***************************************************************************)
\* Initializer calls of the modelled declare owned statements; P is a
\* declared class, P(...) the call of its constructor.
Ctors == {"array_new", "object_new", "pg_surface_new", "np_copy", "P"}

ownedFreeFnForCtor(ctor) ==
  IF ctor = "array_new" THEN "array_free"
  ELSE IF ctor = "dict_new" THEN "dict_free"
  ELSE IF ctor = "map_new" THEN "map_free"
  ELSE IF ctor = "object_new" THEN "object_free"
  ELSE IF ctor \in {"np_new", "np_copy", "np_from_range", "np_linspace"} THEN "np_free"
  ELSE IF ctor \in {"gfx_new", "pg_surface_new"} THEN "gfx_free"
  ELSE IF ctor \in {"game_new", "pg_init"} THEN "game_free"
  ELSE IF ctor = "phys_new" THEN "phys_free"
  ELSE IF ctor = "http_server_listen" THEN "http_server_close"
  ELSE IF ctor = "http_client_connect" THEN "http_client_close"
  ELSE IF ctor \in {"result_ok", "result_err"} THEN "result_free"
  ELSE IF ctor \in {"option_some", "option_none"} THEN "option_free"
  ELSE ""

\* Parser::constructorFreeFnFromExpr with classes_ = {P}: the function a
\* delete statement calls.
constructorFreeFnFromExpr(ctor) ==
  IF ctor = "P" THEN "object_free"
  ELSE IF ctor = "array_new" THEN "array_free"
  ELSE IF ctor = "dict_new" THEN "dict_free"
  ELSE IF ctor = "map_new" THEN "map_free"
  ELSE IF ctor = "object_new" THEN "object_free"
  ELSE IF ctor \in {"option_some", "option_none"} THEN "option_free"
  ELSE IF ctor \in {"result_ok", "result_err"} THEN "result_free"
  ELSE IF ctor = "np_new" THEN "np_free"
  ELSE IF ctor = "gfx_new" THEN "gfx_free"
  ELSE IF ctor = "game_new" THEN "game_free"
  ELSE IF ctor = "pg_surface_new" THEN "pg_surface_free"
  ELSE IF ctor = "phys_new" THEN "phys_free"
  ELSE IF ctor = "http_server_listen" THEN "http_server_close"
  ELSE IF ctor = "http_client_connect" THEN "http_client_close"
  ELSE ""

\* Parser::sDelete for a variable declared with a call of ctor: the function
\* varFreeFn_ holds for it, or else object_free for a variable of a class and
\* mem_free for any other.
sDelete(ctor) ==
  LET freeFn == constructorFreeFnFromExpr(ctor)
  IN IF freeFn # "" THEN freeFn
     ELSE IF ctor = "P" THEN "object_free" ELSE "mem_free"

loopDepth == Cardinality({d \in DOMAIN emBlocks : emBlocks[d] \in {"while", "for"}})

\* EmitC pushes a cleanup scope for a function body, an if branch and a
\* while body, and none for a for body.
HasCleanupScope(kind) == kind \in {"fn", "if", "while"}

\* The emitted free calls of cleanup scope number k ran: one more call for
\* each of its items.
RunScopeCleanup(owned, scopes, ks) ==
  [v \in DOMAIN owned |->
     IF \E k \in ks : \E j \in DOMAIN scopes[k].items : scopes[k].items[j] = v
       THEN [owned[v] EXCEPT !.frees = owned[v].frees + 1]
       ELSE owned[v]]

\* The variables declared in the blocks from depth d on leave their scope.
LeaveScopes(owned, d, how) ==
  [v \in DOMAIN owned |->
     IF owned[v].exit = "live" /\ owned[v].depth >= d
       THEN [owned[v] EXCEPT !.exit = how]
       ELSE owned[v]]

EmitInit ==
  /\ emSu \in BOOLEAN
  /\ emBlocks = <<"fn">>
  /\ cleanupScopes_ = << [items |-> <<>>, loopBoundary |-> FALSE] >>
  /\ emOwned = <<>>
  /\ emLastDecl = NoDecl
  /\ emRetRead = NoRead
  /\ emPc = "emit"

\* declare owned v = ctor(...): the Let case of TypeCheck::stmt, then the
\* Let case of EmitC::stmt with registerOwned.
DeclOwned(ctor) ==
  /\ emPc = "emit"
  /\ Len(emOwned) < MaxOwned
  /\ LET freeFn == ownedFreeFnForCtor(ctor)
         ok == loopDepth = 0 /\ freeFn # ""
         v == Len(emOwned) + 1
         last == Len(cleanupScopes_)
     IN IF ~ok /\ ~emSu
          THEN /\ emPc' = "error"
               /\ emLastDecl' = [ctor |-> ctor, accepted |-> FALSE, freeFn |-> freeFn,
                                 depth |-> Len(emBlocks)]
               /\ UNCHANGED <<emOwned, cleanupScopes_>>
          ELSE /\ emLastDecl' = [ctor |-> ctor, accepted |-> TRUE, freeFn |-> freeFn,
                                 depth |-> Len(emBlocks)]
               /\ emOwned' = Append(emOwned, [ctor |-> ctor, freeFn |-> freeFn, frees |-> 0,
                                              exit |-> "live", depth |-> Len(emBlocks),
                                              deletedBy |-> ""])
               /\ cleanupScopes_' =
                    IF last = 0 \/ freeFn = "" THEN cleanupScopes_
                    ELSE [cleanupScopes_ EXCEPT ![last].items = Append(@, v)]
               /\ emPc' = emPc
  /\ UNCHANGED <<emSu, emBlocks, emRetRead>>
  /\ UNCHANGED notEmitVars

\* delete v: Parser::sDelete makes it a call of the free function of v's
\* constructor, an expression statement like any other.
DeleteOwned(v) ==
  /\ emPc = "emit"
  /\ v \in DOMAIN emOwned
  /\ emOwned[v].exit = "live"
  /\ emOwned[v].frees < MaxFrees
  /\ emOwned' = [emOwned EXCEPT ![v].frees =
                   IF sDelete(emOwned[v].ctor) = emOwned[v].freeFn
                     THEN @ + 1 ELSE @,
                                 ![v].deletedBy = sDelete(emOwned[v].ctor)]
  /\ UNCHANGED <<emSu, emBlocks, cleanupScopes_, emLastDecl, emRetRead, emPc>>
  /\ UNCHANGED notEmitVars

\* The path enters the body of an if, a while or a for statement.
EnterBlock(kind) ==
  /\ emPc = "emit"
  /\ Len(emBlocks) < MaxDepth
  /\ emBlocks' = Append(emBlocks, kind)
  /\ cleanupScopes_' = IF HasCleanupScope(kind)
                         THEN Append(cleanupScopes_,
                                     [items |-> <<>>, loopBoundary |-> kind = "while"])
                         ELSE cleanupScopes_
  /\ UNCHANGED <<emSu, emOwned, emLastDecl, emRetRead, emPc>>
  /\ UNCHANGED notEmitVars

\* The path falls off the end of the innermost block: emitCurrentScopeCleanup
\* and popCleanupScope where the block has a scope.
ExitBlock ==
  /\ emPc = "emit"
  /\ Len(emBlocks) > 1
  /\ LET d == Len(emBlocks)
         scoped == HasCleanupScope(emBlocks[d])
         ran == IF scoped
                  THEN RunScopeCleanup(emOwned, cleanupScopes_, {Len(cleanupScopes_)})
                  ELSE emOwned
     IN /\ emOwned' = LeaveScopes(ran, d, "fall")
        /\ cleanupScopes_' = IF scoped
                               THEN SubSeq(cleanupScopes_, 1, Len(cleanupScopes_) - 1)
                               ELSE cleanupScopes_
        /\ emBlocks' = SubSeq(emBlocks, 1, d - 1)
  /\ UNCHANGED <<emSu, emLastDecl, emRetRead, emPc>>
  /\ UNCHANGED notEmitVars

\* return <expr>, <expr> reading the owned handle r (r = 0: none): the Ret
\* case of EmitC::stmt writes the free calls of emitCleanupForReturn, and
\* after them `return <expr>;`. The emitted C runs in that order: the
\* cleanup of every open scope, then <expr>, then the return.
Return(r) ==
  /\ emPc = "emit"
  /\ r = 0 \/ (r \in DOMAIN emOwned /\ emOwned[r].exit = "live" /\ emOwned[r].frees = 0)
  /\ emOwned' = LeaveScopes(RunScopeCleanup(emOwned, cleanupScopes_, DOMAIN cleanupScopes_),
                            1, "return")
  /\ emRetRead' = IF r = 0 THEN NoRead ELSE [v |-> r, frees |-> emOwned'[r].frees]
  /\ emPc' = "returned"
  /\ UNCHANGED <<emSu, emBlocks, cleanupScopes_, emLastDecl>>
  /\ UNCHANGED notEmitVars

\* break: the emitted C is a bare break out of the innermost loop.
Break ==
  /\ emPc = "emit"
  /\ loopDepth > 0
  /\ LET loops == {d \in DOMAIN emBlocks : emBlocks[d] \in {"while", "for"}}
         d == CHOOSE x \in loops : \A y \in loops : y <= x
         left == Cardinality({k \in d..Len(emBlocks) : HasCleanupScope(emBlocks[k])})
     IN /\ emOwned' = LeaveScopes(emOwned, d, "break")
        /\ emBlocks' = SubSeq(emBlocks, 1, d - 1)
        /\ cleanupScopes_' = SubSeq(cleanupScopes_, 1, Len(cleanupScopes_) - left)
  /\ UNCHANGED <<emSu, emLastDecl, emRetRead, emPc>>
  /\ UNCHANGED notEmitVars

\* continue: the emitted C is a bare continue; the path leaves the blocks of
\* the loop body and goes on after the loop, whose condition it found false.
Continue ==
  /\ emPc = "emit"
  /\ loopDepth > 0
  /\ LET loops == {d \in DOMAIN emBlocks : emBlocks[d] \in {"while", "for"}}
         d == CHOOSE x \in loops : \A y \in loops : y <= x
         left == Cardinality({k \in d..Len(emBlocks) : HasCleanupScope(emBlocks[k])})
     IN /\ emOwned' = LeaveScopes(emOwned, d, "continue")
        /\ emBlocks' = SubSeq(emBlocks, 1, d - 1)
        /\ cleanupScopes_' = SubSeq(cleanupScopes_, 1, Len(cleanupScopes_) - left)
  /\ UNCHANGED <<emSu, emLastDecl, emRetRead, emPc>>
  /\ UNCHANGED notEmitVars

\* The path falls off the end of the function body: EmitC::fn runs the
\* cleanup of the function scope.
EndFn ==
  /\ emPc = "emit"
  /\ Len(emBlocks) = 1
  /\ emOwned' = LeaveScopes(RunScopeCleanup(emOwned, cleanupScopes_, {Len(cleanupScopes_)}),
                            1, "fall")
  /\ cleanupScopes_' = <<>>
  /\ emBlocks' = <<>>
  /\ emPc' = "done"
  /\ UNCHANGED <<emSu, emLastDecl, emRetRead>>
  /\ UNCHANGED notEmitVars

SpecEmitInit == EmitInit /\ SigIdle /\ ResIdle /\ LoopIdle /\ OptIdle /\ TcIdle /\ HashIdle /\ CliIdle /\ EntryIdle /\ TaskIdle /\ DseIdle /\ InlIdle /\ WidIdle /\ CacheIdle /\ UnrollIdle /\ RecheckIdle

SpecEmitNext ==
  \/ \E ctor \in Ctors : DeclOwned(ctor)
  \/ \E v \in 1..MaxOwned : DeleteOwned(v)
  \/ \E kind \in {"if", "while", "for"} : EnterBlock(kind)
  \/ ExitBlock
  \/ \E r \in 0..MaxOwned : Return(r)
  \/ Break
  \/ Continue
  \/ EndFn

SpecEmit == SpecEmitInit /\ [][SpecEmitNext]_vars

\* C1: on every path of an accepted program, an owned variable whose scope
\* the path left by return or by falling off the end of its block had its
\* recorded free function called exactly once.
C1_ExactlyOneFree ==
  emPc # "error" =>
    \A v \in DOMAIN emOwned :
      emOwned[v].exit \in {"fall", "return"} => emOwned[v].frees = 1

\* C7: declare owned p = P(7) at the top of a program, P a declared class,
\* is accepted with free function object_free, and p is released by exactly
\* one object_free(p).
C7_ClassCtorOwned ==
  (~emSu /\ emLastDecl.ctor = "P" /\ emLastDecl.depth = 1) =>
    /\ emLastDecl.accepted
    /\ emLastDecl.freeFn = "object_free"
    /\ emPc = "done" =>
         \A v \in DOMAIN emOwned : emOwned[v].ctor = "P" => emOwned[v].frees = 1

\* C12: a break or continue that leaves a loop body runs, before the jump,
\* the free call of every owned handle registered in the scopes it closes,
\* the scope of the loop body included.
C12_LoopTransferFrees ==
  [][(Break \/ Continue) =>
       \A k \in DOMAIN cleanupScopes_ :
         k > Len(cleanupScopes_') =>
           \A j \in DOMAIN cleanupScopes_[k].items :
             emOwned'[cleanupScopes_[k].items[j]].frees
               = emOwned[cleanupScopes_[k].items[j]].frees + 1]_vars

\* C22: the expression of a return statement is evaluated before any owned
\* handle is freed: the handle it reads has had no free call by then.
C22_ReturnReadsLiveHandle ==
  (emPc = "returned" /\ emRetRead.v # 0) => emRetRead.frees = 0

\* C30: delete x calls the free function the owned-handle table gives for
\* the constructor that created x, for every constructor of that table, and
\* mem_free only for a variable whose constructor no table recognises.
C30_DeleteCallsOwnedFreeFn ==
  \A v \in DOMAIN emOwned :
    emOwned[v].deletedBy # "" =>
      /\ ownedFreeFnForCtor(emOwned[v].ctor) # "" =>
            emOwned[v].deletedBy = ownedFreeFnForCtor(emOwned[v].ctor)
      /\ emOwned[v].deletedBy = "mem_free" =>
            ownedFreeFnForCtor(emOwned[v].ctor) = ""

(***************************************************************************)
(* SpecOpt: main's type-check, optimize, re-type-check on a function body  *)
(* of declarations, assignments, println statements and if statements.     *)
(***************************************************************************)
\* Statements. A value v is an integer literal ("lit") or a call of a
\* builtin such as clock_ms() ("call"); a condition c is the literal true or
\* false or an expression that is no literal ("dyn"). SExpr(n) is println(n)
\* for a variable n, and with n = "" the println_str of a string literal
\* that propagateLocalI64Consts puts in its place.
SLet(n, v) == [k |-> "Let", n |-> n, v |-> v, c |-> "", t |-> <<>>, e |-> <<>>]
SAssign(n, v) == [k |-> "Assign", n |-> n, v |-> v, c |-> "", t |-> <<>>, e |-> <<>>]
SExpr(n) == [k |-> "Expr", n |-> n, v |-> "", c |-> "", t |-> <<>>, e |-> <<>>]
SIf(c, t, e) == [k |-> "If", n |-> "", v |-> "", c |-> c, t |-> t, e |-> e]

SimpleStmts ==
  {SLet("x", v) : v \in {"lit", "call"}}
  \cup {SAssign("x", v) : v \in {"lit", "call"}}
  \cup {SExpr("x")}

\* The branches of an if statement: empty, or one simple statement.
ThenBranches == {<<>>} \cup {<<s>> : s \in SimpleStmts}
ElseBranches == {<<>>, <<SExpr("x")>>}

IfStmts ==
  {SIf(c, t, e) : c \in {"true", "false", "dyn"}, t \in ThenBranches, e \in ElseBranches}

Bodies == SeqsUpTo(SimpleStmts \cup IfStmts, MaxStmts) \ {<<>>}

\* TypeCheck::stmt over the statements of a block from index i on, with the
\* locals l declared so far; out collects the CompileError and the warnings.
RECURSIVE tcBlock(_, _, _, _, _)
tcBlock(b, i, l, out, su) ==
  IF i > Len(b) \/ out.err THEN out
  ELSE LET s == b[i]
           fail(m) == IF su THEN [out EXCEPT !.warn = @ \cup {m}]
                      ELSE [out EXCEPT !.err = TRUE]
       IN IF s.k = "Let"
            THEN tcBlock(b, i + 1, l \cup {s.n},
                         IF s.n \in l THEN fail("already declared") ELSE out, su)
          ELSE IF s.k = "Assign"
            THEN tcBlock(b, i + 1, l \cup {s.n},
                         IF s.n \notin l THEN fail("assignment to undeclared variable")
                         ELSE out, su)
          ELSE IF s.k = "Expr"
            THEN tcBlock(b, i + 1, l,
                         IF s.n # "" /\ s.n \notin l THEN fail("unknown variable") ELSE out,
                         su)
          ELSE LET thenOut == tcBlock(s.t, 1, l, out, su)
                   elseOut == tcBlock(s.e, 1, l, thenOut, su)
               IN tcBlock(b, i + 1, l, elseOut, su)

\* TypeCheck::run on the function.
TypeCheckRun(b, su) == tcBlock(b, 1, {}, NoCheck, su)

exprTrivialNoSideEffects(v) == v = "lit"

RECURSIVE stmtReadsNamed(_, _)
stmtReadsNamed(s, name) ==
  IF s.k = "Expr" THEN s.n = name
  ELSE IF s.k = "If"
    THEN \/ \E j \in DOMAIN s.t : stmtReadsNamed(s.t[j], name)
         \/ \E j \in DOMAIN s.e : stmtReadsNamed(s.e[j], name)
  ELSE FALSE

blockReadsNamed(b, from, name) ==
  \E j \in DOMAIN b : j >= from /\ stmtReadsNamed(b[j], name)

Erase(b, i) == SubSeq(b, 1, i - 1) \o SubSeq(b, i + 1, Len(b))

\* pruneDeadLocalStores from index i on: a declaration or assignment of a
\* side-effect-free value that no later statement of the block reads goes.
RECURSIVE pruneDeadLocalStores(_, _)
pruneDeadLocalStores(b, i) ==
  IF i > Len(b) THEN b
  ELSE LET s == b[i]
       IN IF s.k \in {"Let", "Assign"}
            THEN IF exprTrivialNoSideEffects(s.v) /\ ~blockReadsNamed(b, i + 1, s.n)
                   THEN pruneDeadLocalStores(Erase(b, i), i)
                   ELSE pruneDeadLocalStores(b, i + 1)
          ELSE IF s.k = "If"
            THEN pruneDeadLocalStores(
                   [b EXCEPT ![i] = [s EXCEPT !.t = pruneDeadLocalStores(s.t, 1),
                                              !.e = pruneDeadLocalStores(s.e, 1)]], i + 1)
          ELSE pruneDeadLocalStores(b, i + 1)

\* propagateLocalI64Consts from index i on; known holds the locals whose
\* value is a known constant.
RECURSIVE propagateLocalI64Consts(_, _, _)
propagateLocalI64Consts(b, i, known) ==
  IF i > Len(b) THEN b
  ELSE LET s == b[i]
       IN IF s.k \in {"Let", "Assign"}
            THEN propagateLocalI64Consts(b, i + 1,
                   IF s.v = "lit" THEN known \cup {s.n} ELSE known \ {s.n})
          ELSE IF s.k = "Expr"
            THEN propagateLocalI64Consts(
                   IF s.n \in known THEN [b EXCEPT ![i] = SExpr("")] ELSE b, i + 1, known)
          ELSE propagateLocalI64Consts(
                 [b EXCEPT ![i] = [s EXCEPT !.t = propagateLocalI64Consts(s.t, 1, {}),
                                            !.e = propagateLocalI64Consts(s.e, 1, {})]],
                 i + 1, {})

\* std::optional<bool> litB of a condition
litB(c) == c \in {"true", "false"}

\* optBlock with inLoopBody = false: the statement loop from index 1, then
\* pruneDeadLocalStores and propagateLocalI64Consts on the block.
RECURSIVE optBlock(_)
RECURSIVE optStmts(_, _)
optStmts(b, i) ==
  IF i > Len(b) THEN b
  ELSE LET s == b[i]
       IN IF s.k # "If" THEN optStmts(b, i + 1)
          ELSE LET t == optBlock(s.t)
                   e == optBlock(s.e)
               IN IF litB(s.c)
                    THEN LET rep == IF s.c = "true" THEN t ELSE e
                         IN optStmts(SubSeq(b, 1, i - 1) \o rep \o SubSeq(b, i + 1, Len(b)),
                                     IF i > 1 THEN i ELSE 2)
                    ELSE optStmts([b EXCEPT ![i] = [s EXCEPT !.t = t, !.e = e]], i + 1)

optBlock(b) == propagateLocalI64Consts(pruneDeadLocalStores(optStmts(b, 1), 1), 1, {})

\* The default of --passes
kPasses == 12

OptInit ==
  /\ oSu \in BOOLEAN
  /\ oProg \in Bodies
  /\ oPass = 0
  /\ oCheck1 = NoCheck
  /\ oCheck2 = NoCheck
  /\ oPc = "type-check"

\* main: tc.run() on the parsed program.
TypeCheckFirst ==
  /\ oPc = "type-check"
  /\ oCheck1' = TypeCheckRun(oProg, oSu)
  /\ oPc' = IF oCheck1'.err THEN "rejected" ELSE "optimize"
  /\ UNCHANGED <<oSu, oProg, oPass, oCheck2>>
  /\ UNCHANGED notOptVars

\* optimize(): one round of the pass loop; the loop ends after a pass that
\* changed nothing or after the last pass.
OptimizePass ==
  /\ oPc = "optimize"
  /\ oPass < kPasses
  /\ LET after == optBlock(oProg)
     IN /\ oProg' = after
        /\ oPass' = oPass + 1
        /\ oPc' = IF after = oProg \/ oPass + 1 = kPasses THEN "re-type-check"
                  ELSE "optimize"
  /\ UNCHANGED <<oSu, oCheck1, oCheck2>>
  /\ UNCHANGED notOptVars

\* main: tc2.run() on the optimized program.
TypeCheckAgain ==
  /\ oPc = "re-type-check"
  /\ oCheck2' = TypeCheckRun(oProg, oSu)
  /\ oPc' = "done"
  /\ UNCHANGED <<oSu, oProg, oPass, oCheck1>>
  /\ UNCHANGED notOptVars

SpecOptInit == OptInit /\ SigIdle /\ ResIdle /\ LoopIdle /\ EmitIdle /\ TcIdle /\ HashIdle /\ CliIdle /\ EntryIdle /\ TaskIdle /\ DseIdle /\ InlIdle /\ WidIdle /\ CacheIdle /\ UnrollIdle /\ RecheckIdle

SpecOptNext == TypeCheckFirst \/ OptimizePass \/ TypeCheckAgain

SpecOpt == SpecOptInit /\ [][SpecOptNext]_vars

\* C2: the type check of the optimized program raises no error and no
\* warning that the first check of the program did not give.
C2_RecheckAddsNothing ==
  oPc = "done" => ~oCheck2.err /\ oCheck2.warn \subseteq oCheck1.warn

(***************************************************************************)
(* SpecTc: TypeCheck::stmt on the statements of one function body, one     *)
(* after the other, with the locals, the loop depth and the warnings the   *)
(* checker carries. A failed requirement is a CompileError, or what        *)
(* TypeCheck::req and failType make of it in superuser mode.               *)
(***************************************************************************)
LocalNames == {"a", "x"}

\* Local{}: what l[n] inserts for a name that is not declared
NoLocal == [declared |-> FALSE, t |-> "I64", isConst |-> FALSE, isOwned |-> FALSE]

Local(t, isConst, isOwned) ==
  [declared |-> TRUE, t |-> t, isConst |-> isConst, isOwned |-> isOwned]

\* Expressions: literals, the calls array_new() ("Ctor") and clock_ms()
\* ("Call"), 1 / 0 ("Div0"), a variable n ("Var") and n + 1 - 1 ("AddSub"),
\* whose value is that of n and which no rule of optE collapses.
Ex(k, n) == [k |-> k, n |-> n]

ValueExprs == {Ex(k, "") : k \in {"Int", "Str", "Ctor", "Call", "Div0"}}

RetExprs ==
  {Ex("Int", "")} \cup {Ex(k, n) : k \in {"Var", "AddSub"}, n \in LocalNames}

CondExprs == {Ex("Bool", ""), Ex("Int", "")}

\* TypeCheck::expr: the failed requirements of an expression, as kinds.
exprViolations(e, l) ==
  IF e.k = "Div0" THEN {"division by zero"}
  ELSE IF e.k \in {"Var", "AddSub"} /\ ~l[e.n].declared THEN {"unknown variable"}
  ELSE IF e.k = "AddSub" /\ ~isNum(l[e.n].t) THEN {"arithmetic requires numeric"}
  ELSE {}

\* TypeCheck::expr: the type of an expression; failType falls back to i64.
exprType(e, l) ==
  IF e.k = "Str" THEN "Str"
  ELSE IF e.k = "Bool" THEN "Bool"
  ELSE IF e.k = "Var" /\ l[e.n].declared THEN l[e.n].t
  ELSE "I64"

\* The error kinds the language lets superuser mode turn into warnings.
ListedDemotions ==
  {"duplicate function", "ambiguous overload", "throws contract", "division by zero",
   "modulo by zero", "for range step zero", "parallel for outer writes",
   "parallel for loop control"}

\* TypeCheck::req, failType and the direct throws: outside superuser mode
\* the first failed requirement is a CompileError; in superuser mode every
\* one of them is a warning and the statement takes effect.
Requirements(st, violated, locals, depth) ==
  /\ tN' = tN + 1
  /\ tLast' = [st EXCEPT !.violated = violated]
  /\ IF violated # {} /\ ~tSu
       THEN /\ tPc' = "error"
            /\ UNCHANGED <<tLocals, tLoopDepth, tWarn>>
       ELSE /\ tPc' = tPc
            /\ tWarn' = tWarn \cup violated
            /\ tLocals' = locals
            /\ tLoopDepth' = depth
  /\ UNCHANGED <<tSu, tRet>>

TcInit ==
  /\ tSu \in BOOLEAN
  /\ tRet \in {"Void", "I64"}
  /\ tLocals = [n \in LocalNames |-> NoLocal]
  /\ tLoopDepth = 0
  /\ tLast = NoStmt
  /\ tWarn = {}
  /\ tN = 0
  /\ tPc = "check"

\* case SK::Let
TcLet(n, decl, isConst, isOwned, e) ==
  /\ tPc = "check"
  /\ tN < MaxTcStmts
  /\ LET vt == exprType(e, tLocals)
         ft == IF decl = "" THEN vt ELSE decl
         violated ==
           (IF tLocals[n].declared THEN {"already declared"} ELSE {})
           \cup exprViolations(e, tLocals)
           \cup (IF ~can(vt, ft) THEN {"cannot convert"} ELSE {})
           \cup (IF isOwned /\ tLoopDepth # 0 THEN {"owned inside loop"} ELSE {})
           \cup (IF isOwned /\ ft # "I64" THEN {"owned handle type"} ELSE {})
           \cup (IF isOwned /\ e.k # "Ctor" THEN {"owned constructor"} ELSE {})
     IN Requirements([NoStmt EXCEPT !.k = "Let", !.n = n, !.e = e.k], violated,
                     [tLocals EXCEPT ![n] = Local(ft, isConst, isOwned)], tLoopDepth)
  /\ UNCHANGED notTcVars

\* case SK::Assign
TcAssign(n, e) ==
  /\ tPc = "check"
  /\ tN < MaxTcStmts
  /\ LET vt == exprType(e, tLocals)
         violated ==
           (IF ~tLocals[n].declared THEN {"assignment to undeclared variable"} ELSE {})
           \cup exprViolations(e, tLocals)
           \cup (IF tLocals[n].isConst THEN {"assignment to const"} ELSE {})
           \cup (IF tLocals[n].isOwned THEN {"assignment to owned"} ELSE {})
           \cup (IF ~can(vt, tLocals[n].t) THEN {"cannot assign"} ELSE {})
     IN Requirements([NoStmt EXCEPT !.k = "Assign", !.n = n, !.e = e.k,
                                     !.ownedTarget = tLocals[n].isOwned],
                     violated, [tLocals EXCEPT ![n].declared = TRUE], tLoopDepth)
  /\ UNCHANGED notTcVars

\* case SK::Ret with a value
TcRet(e) ==
  /\ tPc = "check"
  /\ tN < MaxTcStmts
  /\ LET vt == exprType(e, tLocals)
         violated ==
           (IF e.k = "Var" /\ tLocals[e.n].declared /\ tLocals[e.n].isOwned
              THEN {"return of owned"} ELSE {})
           \cup exprViolations(e, tLocals)
           \cup (IF ~can(vt, tRet) THEN {"cannot return"} ELSE {})
     IN Requirements([NoStmt EXCEPT !.k = "Ret", !.n = e.n, !.e = e.k,
                                     !.ownedValue = e.k \in {"Var", "AddSub"}
                                                    /\ tLocals[e.n].declared
                                                    /\ tLocals[e.n].isOwned],
                     violated, tLocals, tLoopDepth)
  /\ UNCHANGED notTcVars

\* case SK::If and case SK::While: the condition; the path goes on in the
\* body, which for a while is one loop deeper.
TcCond(kind, c) ==
  /\ tPc = "check"
  /\ tN < MaxTcStmts
  /\ LET violated == IF exprType(c, tLocals) # "Bool" THEN {"condition must be bool"} ELSE {}
     IN Requirements([NoStmt EXCEPT !.k = kind, !.e = c.k], violated, tLocals,
                     IF kind = "While" THEN tLoopDepth + 1 ELSE tLoopDepth)
  /\ UNCHANGED notTcVars

\* case SK::For with literal bounds and a literal step
TcFor(step) ==
  /\ tPc = "check"
  /\ tN < MaxTcStmts
  /\ LET violated == IF step = 0 THEN {"for range step zero"} ELSE {}
     IN Requirements([NoStmt EXCEPT !.k = "For"], violated, tLocals, tLoopDepth + 1)
  /\ UNCHANGED notTcVars

\* case SK::Break
TcBreak ==
  /\ tPc = "check"
  /\ tN < MaxTcStmts
  /\ LET violated == IF tLoopDepth > 0 THEN {} ELSE {"break outside loop"}
     IN Requirements([NoStmt EXCEPT !.k = "Break"], violated, tLocals, tLoopDepth)
  /\ UNCHANGED notTcVars

SpecTcInit == TcInit /\ SigIdle /\ ResIdle /\ LoopIdle /\ EmitIdle /\ OptIdle /\ HashIdle /\ CliIdle /\ EntryIdle /\ TaskIdle /\ DseIdle /\ InlIdle /\ WidIdle /\ CacheIdle /\ UnrollIdle /\ RecheckIdle

SpecTcNext ==
  \/ \E n \in LocalNames, decl \in {"", "Str"}, isConst \in BOOLEAN, isOwned \in BOOLEAN,
        e \in ValueExprs : TcLet(n, decl, isConst, isOwned, e)
  \/ \E n \in LocalNames, e \in ValueExprs : TcAssign(n, e)
  \/ \E e \in RetExprs : TcRet(e)
  \/ \E kind \in {"If", "While"}, c \in CondExprs : TcCond(kind, c)
  \/ \E step \in {0, 1} : TcFor(step)
  \/ TcBreak

SpecTc == SpecTcInit /\ [][SpecTcNext]_vars

\* C11: outside superuser mode no statement the checker accepts assigns to
\* an owned variable, and none returns the value of an owned variable of the
\* function.
C11_OwnedStaysInScope ==
  (~tSu /\ tPc = "check") => ~tLast.ownedTarget /\ ~tLast.ownedValue

\* C13: in superuser mode a statement that fails a requirement outside the
\* listed kinds ends the compilation with an error.
C13_OnlyListedDemotions ==
  (tSu /\ tLast.violated \ ListedDemotions # {}) => tPc = "error"

(***************************************************************************)
(* SpecHash: computeBuildConfigHash for two compilations on one file       *)
(* system. Strings are sequences of bytes. The hashes are kept at the      *)
(* width HashMod: the low bits of the 64-bit values, which the xor and the  *)
(* multiplication of FNV-1a compute from the low bits alone.               *)
(***************************************************************************)
HashMod == 65536        \* 2^16
FnvOffset == 8997       \* 1469598103934665603 % 2^16
FnvPrime == 435         \* 1099511628211 % 2^16

RECURSIVE BitXor(_, _)
BitXor(a, b) ==
  IF a = 0 THEN b
  ELSE IF b = 0 THEN a
  ELSE (((a % 2) + (b % 2)) % 2) + 2 * BitXor(a \div 2, b \div 2)

RECURSIVE fnv1a64From(_, _, _)
fnv1a64From(str, i, h) ==
  IF i > Len(str) THEN h
  ELSE LET next == (BitXor(h, str[i]) * FnvPrime) % HashMod
       IN IF next < HashMod THEN fnv1a64From(str, i + 1, next) ELSE next

fnv1a64(str, seed) == fnv1a64From(str, 1, seed)

\* The byte of a hexadecimal digit: '0'..'9', 'a'..'f'
HexDigit(d) == IF d < 10 THEN 48 + d ELSE 87 + d

\* hex64 at the width of the model: zero-filled lower-case hexadecimal
hex64(v) ==
  << HexDigit((v \div 4096) % 16), HexDigit((v \div 256) % 16),
     HexDigit((v \div 16) % 16), HexDigit(v % 16) >>

\* std::to_string of a non-negative int
RECURSIVE to_string(_)
to_string(n) == IF n < 10 THEN <<48 + n>> ELSE to_string(n \div 10) \o <<48 + (n % 10)>>

\* The files of the file system: path "a" holds "bc", path "ab" holds "c".
PathA == <<97>>
PathAB == <<97, 98>>
readFile(path) == IF path = PathA THEN <<98, 99>> ELSE <<99>>

RECURSIVE sourceStateFrom(_, _, _)
sourceStateFrom(inputs, i, h) ==
  IF i > Len(inputs) THEN h
  ELSE sourceStateFrom(inputs, i + 1, fnv1a64(readFile(inputs[i]), fnv1a64(inputs[i], h)))

computeSourceStateHash(inputs) == hex64(sourceStateFrom(inputs, 1, FnvOffset))

\* "LineScript-compile-cache-v1"
CacheTag ==
  <<76, 105, 110, 101, 83, 99, 114, 105, 112, 116, 45, 99, 111, 109, 112, 105, 108, 101,
    45, 99, 97, 99, 104, 101, 45, 118, 49>>

computeBuildConfigHash(c) ==
  LET h1 == fnv1a64(CacheTag, FnvOffset)
      h2 == fnv1a64(computeSourceStateHash(c.inputs), h1)
      h3 == fnv1a64(c.cc, h2)
      h4 == fnv1a64(c.backend, h3)
      h5 == fnv1a64(IF c.maxSpeed THEN <<49>> ELSE <<48>>, h4)
      h6 == fnv1a64(to_string(c.passes), h5)
      h7 == fnv1a64(c.target, h6)
      h8 == fnv1a64(c.sysroot, h7)
      h9 == fnv1a64(c.linker, h8)
  IN hex64(h9)

\* The option values of the modelled command lines.
InputLists == {<<PathA>>, <<PathAB>>, <<PathA, PathAB>>}
CcNames == {<<99, 99>>}                      \* "cc"
BackendNames == {<<99>>}                     \* "c"
PassCounts == {1, 12}
TargetNames == {<<>>, <<50>>, <<120>>}       \* "", "2", "x"
SysrootNames == {<<>>, <<120>>}              \* "", "x"
LinkerNames == {<<>>}

Configs ==
  [inputs : InputLists, cc : CcNames, backend : BackendNames, maxSpeed : BOOLEAN,
   passes : PassCounts, target : TargetNames, sysroot : SysrootNames, linker : LinkerNames]

HashInit ==
  /\ hCfgA \in Configs
  /\ hCfgB \in Configs
  /\ hOutA = <<>>
  /\ hOutB = <<>>
  /\ hPc = {}

\* main: the config hash of the first compilation
HashFirst ==
  /\ "A" \notin hPc
  /\ hOutA' = computeBuildConfigHash(hCfgA)
  /\ hPc' = hPc \cup {"A"}
  /\ UNCHANGED <<hCfgA, hCfgB, hOutB>>
  /\ UNCHANGED notHashVars

\* main: the config hash of the second compilation
HashSecond ==
  /\ "B" \notin hPc
  /\ hOutB' = computeBuildConfigHash(hCfgB)
  /\ hPc' = hPc \cup {"B"}
  /\ UNCHANGED <<hCfgA, hCfgB, hOutA>>
  /\ UNCHANGED notHashVars

SpecHashInit == HashInit /\ SigIdle /\ ResIdle /\ LoopIdle /\ EmitIdle /\ OptIdle /\ TcIdle /\ CliIdle /\ EntryIdle /\ TaskIdle /\ DseIdle /\ InlIdle /\ WidIdle /\ CacheIdle /\ UnrollIdle /\ RecheckIdle

SpecHashNext == HashFirst \/ HashSecond

SpecHash == SpecHashInit /\ [][SpecHashNext]_vars

\* The components in which two configurations differ.
Differing(a, b) == {f \in DOMAIN a : a[f] # b[f]}

\* C14: two compilations with the same components have the same
\* config_hash, and two compilations that differ in one component have
\* different ones.
C14_ConfigHash ==
  hPc = {"A", "B"} =>
    /\ hCfgA = hCfgB => hOutA = hOutB
    /\ Cardinality(Differing(hCfgA, hCfgB)) = 1 => hOutA # hOutB

-----------------------------------------------------------------------------
\* The driver: parseOpt, the CLI flags of main, the entry wrapper

\* The longest command line after the input file.
MaxArgs == 3

\* The pass count -O4 and --max-speed raise a smaller count to.
kMaxSpeedPasses == 32

\* The symbol of the user entry in the emitted C.
kEntryName == "__linescript_main"

\* A command-line argument: the number of leading dashes and the text
\* after them.
Tok(dashes, body) == [dashes |-> dashes, body |-> body]

InputTok == Tok(0, "p.lsc")

ArgTokens ==
  {Tok(2, "a"), Tok(2, "b"), Tok(2, "incremental"), Tok(2, "max-speed"),
   Tok(2, "passes"), Tok(1, "O4"), Tok(0, "["), Tok(0, "]"), Tok(0, "5"),
   Tok(0, "40")}

\* The flag functions a program declares (Parser::fn, `flag name()`).
FlagDefSets == {{"a", "b", "incremental"}, {"a", "incremental"}}

isCliGroupOpenToken(tok) == tok = Tok(0, "[")

isCliGroupCloseToken(tok) == tok = Tok(0, "]")

isCliGroupToken(tok) == isCliGroupOpenToken(tok) \/ isCliGroupCloseToken(tok)

isPotentialShortOptionToken(tok) == tok.dashes = 1 /\ tok.body # ""

isPotentialLongOptionToken(tok) == tok.dashes = 2 /\ tok.body # ""

isPotentialOptionToken(tok) ==
  isPotentialShortOptionToken(tok) \/ isPotentialLongOptionToken(tok)

isPotentialOptionValueToken(tok) ==
  /\ tok # Tok(0, "")
  /\ ~isCliGroupToken(tok)
  /\ ~isPotentialOptionToken(tok)

isSourceExt(tok) == tok = InputTok

\* std::stoi on an argument; 0 stands for the exception it throws on an
\* argument that does not start with a number.
stoi(tok) ==
  IF tok = Tok(0, "5") THEN 5
  ELSE IF tok = Tok(0, "40") THEN 40
  ELSE 0

\* The text after the leading "--", empty for any other argument.
cliFlagBodyFromArg(arg) == IF arg.dashes = 2 THEN arg.body ELSE ""

\* Every body of ArgTokens is made of letters and single inner dashes,
\* so only the empty body is rejected here.
isValidCliFlagBody(body) == body # ""

isKnownInfoFlagBody(body) ==
  body \in {"LineScript", "super-speed", "what", "hlep", "max-sped"}

\* Parser::cliFlagSymbol, for names without a dash.
cliFlagSymbol(name) == "__ls_flag_" \o name

\* cliFlagDefinitions and the flagSymbols map of EmitC::EmitC.
cliFlagDefinitions(defs) == [n \in defs |-> cliFlagSymbol(n)]

OptDefault ==
  [inputs |-> <<>>, maxSpeed |-> FALSE, incremental |-> TRUE,
   passes |-> kPasses, cliFlags |-> <<>>, cliCustomTokens |-> <<>>]

\* pushCustomToken: the group depth after the token, -1 for the
\* unexpected ']'.
pushCustomTokenDepth(depth, tok) ==
  IF isCliGroupOpenToken(tok) THEN depth + 1
  ELSE IF isCliGroupCloseToken(tok) THEN
    IF depth = 0 THEN -1 ELSE depth - 1
  ELSE depth

CliInit ==
  /\ flagDefs \in FlagDefSets
  /\ \E n \in 0..MaxArgs :
       \E rest \in [1..n -> ArgTokens] : argv = <<InputTok>> \o rest
  /\ argI = 1
  /\ cliGroupDepth = 0
  /\ opt = OptDefault
  /\ activeCliFlags = <<>>
  /\ activeCliFlagCalls_ = <<>>
  /\ wrapper = <<>>
  /\ cliPc = "parse"

\* parseOpt leaves its loop with an exception.
ParseFail ==
  /\ cliPc' = "error"
  /\ UNCHANGED <<argI, cliGroupDepth, opt>>

\* parseOpt goes on with the argument `used` places further.
ParseGo(newOpt, newDepth, used) ==
  /\ opt' = newOpt
  /\ cliGroupDepth' = newDepth
  /\ argI' = argI + used
  /\ cliPc' = cliPc

\* parseOpt: one round of the loop over argv
ParseArg ==
  /\ cliPc = "parse"
  /\ argI <= Len(argv)
  /\ LET a == argv[argI]
         hasNext == argI + 1 <= Len(argv)
         next == argv[argI + 1]
         pushed == [opt EXCEPT !.cliCustomTokens = Append(@, a)]
     IN IF isCliGroupToken(a) THEN
          IF pushCustomTokenDepth(cliGroupDepth, a) < 0 THEN ParseFail
          ELSE ParseGo(pushed, pushCustomTokenDepth(cliGroupDepth, a), 1)
        ELSE IF a = Tok(1, "O4") \/ a = Tok(2, "max-speed") THEN
          ParseGo([opt EXCEPT !.maxSpeed = TRUE,
                              !.passes = IF @ < kMaxSpeedPasses
                                         THEN kMaxSpeedPasses ELSE @],
                  cliGroupDepth, 1)
        ELSE IF a = Tok(2, "incremental") THEN
          ParseGo([opt EXCEPT !.incremental = TRUE], cliGroupDepth, 1)
        ELSE IF a = Tok(2, "passes") THEN
          IF ~hasNext \/ stoi(next) <= 0 THEN ParseFail
          ELSE ParseGo([opt EXCEPT !.passes = stoi(next)], cliGroupDepth, 2)
        ELSE IF a.dashes > 0 THEN
          IF isPotentialLongOptionToken(a) THEN
            LET flagged == IF cliGroupDepth = 0
                           THEN [pushed EXCEPT !.cliFlags = Append(@, a)]
                           ELSE pushed
            IN IF hasNext /\ isPotentialOptionValueToken(next) THEN
                 ParseGo([flagged EXCEPT !.cliCustomTokens = Append(@, next)],
                         cliGroupDepth, 2)
               ELSE ParseGo(flagged, cliGroupDepth, 1)
          ELSE ParseFail
        ELSE IF ~isSourceExt(a) THEN ParseFail
        ELSE ParseGo([opt EXCEPT !.inputs = Append(@, a)], cliGroupDepth, 1)
  /\ UNCHANGED <<flagDefs, argv, activeCliFlags, activeCliFlagCalls_, wrapper>>
  /\ UNCHANGED notCliVars

\* parseOpt: the checks after the loop
ParseEnd ==
  /\ cliPc = "parse"
  /\ argI > Len(argv)
  /\ cliPc' = IF cliGroupDepth # 0 \/ opt.inputs = <<>> THEN "error" ELSE "main"
  /\ UNCHANGED <<flagDefs, argv, argI, cliGroupDepth, opt, activeCliFlags,
                 activeCliFlagCalls_, wrapper>>
  /\ UNCHANGED notCliVars

\* main's loop with the newest active flag put first
RECURSIVE collectActiveNewestFirst(_, _, _, _, _)
collectActiveNewestFirst(flags, defs, i, seen, active) ==
  IF i > Len(flags) THEN active
  ELSE
    LET body == cliFlagBodyFromArg(flags[i])
    IN IF ~isValidCliFlagBody(body) THEN
         collectActiveNewestFirst(flags, defs, i + 1, seen, active)
       ELSE IF body \in DOMAIN defs THEN
         IF body \notin seen
         THEN collectActiveNewestFirst(flags, defs, i + 1, seen \cup {body},
                                       <<body>> \o active)
         ELSE collectActiveNewestFirst(flags, defs, i + 1, seen, active)
       ELSE collectActiveNewestFirst(flags, defs, i + 1, seen, active)

\* main: the loop over o.cliFlags from flag i on, with the bodies seen
\* so far and the active flags so far
RECURSIVE collectActive(_, _, _, _, _)
collectActive(flags, defs, i, seen, active) ==
  IF i > Len(flags) THEN active
  ELSE
    LET body == cliFlagBodyFromArg(flags[i])
    IN IF ~isValidCliFlagBody(body) THEN
         collectActive(flags, defs, i + 1, seen, active)
       ELSE IF body \in DOMAIN defs THEN
         IF body \notin seen
         THEN collectActive(flags, defs, i + 1, seen \cup {body},
                            Append(active, body))
         ELSE collectActive(flags, defs, i + 1, seen, active)
       ELSE collectActive(flags, defs, i + 1, seen, active)

\* main: the active CLI flags of the compilation
MainFlags ==
  /\ cliPc = "main"
  /\ activeCliFlags' =
       collectActive(opt.cliFlags, cliFlagDefinitions(flagDefs), 1, {}, <<>>)
  /\ cliPc' = "emit"
  /\ UNCHANGED <<flagDefs, argv, argI, cliGroupDepth, opt, activeCliFlagCalls_,
                 wrapper>>
  /\ UNCHANGED notCliVars

\* EmitC::EmitC: the loop over activeCliFlags from flag i on
RECURSIVE flagCalls(_, _, _, _, _)
flagCalls(active, flagSymbols, i, seenFlags, calls) ==
  IF i > Len(active) THEN calls
  ELSE IF active[i] \notin DOMAIN flagSymbols \/ active[i] \in seenFlags THEN
    flagCalls(active, flagSymbols, i + 1, seenFlags, calls)
  ELSE
    flagCalls(active, flagSymbols, i + 1, seenFlags \cup {active[i]},
              Append(calls, flagSymbols[active[i]]))

\* EmitC::EmitC: the symbols of the active flag functions
EmitCtor ==
  /\ cliPc = "emit"
  /\ activeCliFlagCalls_' =
       flagCalls(activeCliFlags, cliFlagDefinitions(flagDefs), 1, {}, <<>>)
  /\ cliPc' = "wrap"
  /\ UNCHANGED <<flagDefs, argv, argI, cliGroupDepth, opt, activeCliFlags,
                 wrapper>>
  /\ UNCHANGED notCliVars

\* EmitC::emitEntryWrapper: the flag calls, then the entry call
emitEntryWrapper ==
  /\ cliPc = "wrap"
  /\ wrapper' = activeCliFlagCalls_ \o <<kEntryName>>
  /\ cliPc' = "done"
  /\ UNCHANGED <<flagDefs, argv, argI, cliGroupDepth, opt, activeCliFlags,
                 activeCliFlagCalls_>>
  /\ UNCHANGED notCliVars

SpecCliInit == CliInit /\ SigIdle /\ ResIdle /\ LoopIdle /\ EmitIdle /\ OptIdle /\ TcIdle /\ HashIdle /\ EntryIdle /\ TaskIdle /\ DseIdle /\ InlIdle /\ WidIdle /\ CacheIdle /\ UnrollIdle /\ RecheckIdle

SpecCliNext == ParseArg \/ ParseEnd \/ MainFlags \/ EmitCtor \/ emitEntryWrapper

SpecCli == SpecCliInit /\ [][SpecCliNext]_vars

\* The elements of a sequence in the order of their first occurrence.
RECURSIVE FirstSeen(_)
FirstSeen(s) ==
  IF s = <<>> THEN <<>>
  ELSE
    LET front == FirstSeen(SubSeq(s, 1, Len(s) - 1))
        last == s[Len(s)]
    IN IF \E i \in DOMAIN front : front[i] = last THEN front
       ELSE Append(front, last)

\* The calls of a wrapper that calls the flag function of every declared
\* name among the arguments once, in first-seen order, and then the entry.
CallsFor(args) ==
  LET declared == SelectSeq(args, LAMBDA t : t.dashes = 2 /\ t.body \in flagDefs)
      names == FirstSeen(declared)
  IN [i \in DOMAIN names |-> cliFlagSymbol(names[i].body)] \o <<kEntryName>>

HasMaxSpeed == \E i \in DOMAIN argv : argv[i] \in {Tok(1, "O4"), Tok(2, "max-speed")}

\* C19: after parseOpt the pass count is at least 32 when the command
\* line has -O4 or --max-speed, wherever --passes stands, and 12 when it
\* has neither of them and no --passes.
C19_MaxSpeedPasses ==
  cliPc = "main" =>
    /\ HasMaxSpeed => opt.passes >= kMaxSpeedPasses
    /\ (~HasMaxSpeed /\ \A i \in DOMAIN argv : argv[i] # Tok(2, "passes"))
         => opt.passes = kPasses

-----------------------------------------------------------------------------
\* Entry selection: EmitC::EmitC and the check of main

\* The most functions of a program.
MaxFns == 3

kNoEntryError ==
  "no runnable entry point found; add top-level statements, define main(), or define one zero-argument function"

kAmbiguousEntryError ==
  "ambiguous entry point: multiple zero-argument functions found; define main(), add top-level statements, or keep only one zero-argument function"

\* A function of the program: its symbol, its number of parameters, and
\* the extern and cli-flag modifiers.
EntryFn(n, np, ex, isCliFlag) == [n |-> n, p |-> np, ex |-> ex, isCliFlag |-> isCliFlag]

EntryFns ==
  {EntryFn("main", 0, FALSE, FALSE), EntryFn("main", 1, FALSE, FALSE),
   EntryFn("f", 0, FALSE, FALSE), EntryFn("g", 0, FALSE, FALSE),
   EntryFn("h", 1, FALSE, FALSE), EntryFn("e", 0, TRUE, FALSE),
   EntryFn("__ls_flag_a", 0, FALSE, TRUE)}

\* main appends the script entry, made from the top-level statements,
\* after the declared functions.
ScriptFn == EntryFn(kScriptEntryName, 0, FALSE, FALSE)

EntryInit ==
  /\ \E n \in 0..MaxFns :
       \E fs \in [1..n -> EntryFns] :
         /\ \A i, j \in 1..n : i # j => fs[i].n # fs[j].n
         /\ pFns \in {fs} \cup (IF n < MaxFns THEN {Append(fs, ScriptFn)} ELSE {})
  /\ oBuild \in BOOLEAN
  /\ entry_ = 0
  /\ entryError_ = ""
  /\ enPc = "ctor"

ScanInit == [mainEntry |-> 0, scriptEntry |-> 0, singleZeroArg |-> 0, zeroArgCount |-> 0]

\* EmitC::EmitC: the loop over p_.f from function i on
RECURSIVE scanEntries(_, _, _)
scanEntries(fns, i, acc) ==
  IF i > Len(fns) THEN acc
  ELSE IF fns[i].ex \/ fns[i].isCliFlag THEN scanEntries(fns, i + 1, acc)
  ELSE
    LET named == [acc EXCEPT
                    !.mainEntry = IF fns[i].n = "main" THEN i ELSE @,
                    !.scriptEntry = IF fns[i].n = kScriptEntryName THEN i ELSE @]
    IN IF fns[i].p = 0
       THEN scanEntries(fns, i + 1,
              [named EXCEPT !.zeroArgCount = @ + 1,
                            !.singleZeroArg = IF @ = 0 THEN i ELSE @])
       ELSE scanEntries(fns, i + 1, named)

\* The choice with main ahead of the script entry
chooseEntryMainFirst(acc) ==
  IF acc.mainEntry # 0 THEN [entry |-> acc.mainEntry, error |-> ""]
  ELSE IF acc.scriptEntry # 0 THEN [entry |-> acc.scriptEntry, error |-> ""]
  ELSE IF acc.zeroArgCount = 1 THEN [entry |-> acc.singleZeroArg, error |-> ""]
  ELSE IF acc.zeroArgCount = 0 THEN [entry |-> 0, error |-> kNoEntryError]
  ELSE [entry |-> 0, error |-> kAmbiguousEntryError]

\* EmitC::EmitC: the choice after the loop
chooseEntry(acc) ==
  IF acc.scriptEntry # 0 THEN [entry |-> acc.scriptEntry, error |-> ""]
  ELSE IF acc.mainEntry # 0 THEN [entry |-> acc.mainEntry, error |-> ""]
  ELSE IF acc.zeroArgCount = 1 THEN [entry |-> acc.singleZeroArg, error |-> ""]
  ELSE IF acc.zeroArgCount = 0 THEN [entry |-> 0, error |-> kNoEntryError]
  ELSE [entry |-> 0, error |-> kAmbiguousEntryError]

\* EmitC::EmitC: entry_ and entryError_
EntryCtor ==
  /\ enPc = "ctor"
  /\ LET chosen == chooseEntry(scanEntries(pFns, 1, ScanInit))
     IN /\ entry_' = chosen.entry
        /\ entryError_' = chosen.error
  /\ enPc' = "main"
  /\ UNCHANGED <<pFns, oBuild>>
  /\ UNCHANGED notEntryVars

hasEntry == entry_ # 0

\* main: a build or run without an entry throws entryError()
MainEntryCheck ==
  /\ enPc = "main"
  /\ enPc' = IF oBuild /\ ~hasEntry THEN "failed" ELSE "emit"
  /\ UNCHANGED <<pFns, oBuild, entry_, entryError_>>
  /\ UNCHANGED notEntryVars

SpecEntryInit == EntryInit /\ SigIdle /\ ResIdle /\ LoopIdle /\ EmitIdle /\ OptIdle /\ TcIdle /\ HashIdle /\ CliIdle /\ TaskIdle /\ DseIdle /\ InlIdle /\ WidIdle /\ CacheIdle /\ UnrollIdle /\ RecheckIdle

SpecEntryNext == EntryCtor \/ MainEntryCheck

SpecEntry == SpecEntryInit /\ [][SpecEntryNext]_vars

\* The user functions of the program: neither extern nor a cli flag.
UserFns == {i \in DOMAIN pFns : ~pFns[i].ex /\ ~pFns[i].isCliFlag}

UserNamed(n) == {i \in UserFns : pFns[i].n = n}

ZeroArgUsers == {i \in UserFns : pFns[i].p = 0}

\* C16: the entry is the script entry if there is one, else the function
\* named main, else the only zero-argument user function; with none of
\* them a build or run fails, with one message for no zero-argument
\* function and another message for several.
C16_EntrySelection ==
  enPc \in {"main", "emit", "failed"} =>
    IF UserNamed(kScriptEntryName) # {}
    THEN entry_ \in UserNamed(kScriptEntryName) /\ enPc # "failed"
    ELSE IF UserNamed("main") # {}
    THEN entry_ \in UserNamed("main") /\ enPc # "failed"
    ELSE IF Cardinality(ZeroArgUsers) = 1
    THEN entry_ \in ZeroArgUsers /\ enPc # "failed"
    ELSE
      /\ entry_ = 0
      /\ entryError_ = IF ZeroArgUsers = {} THEN kNoEntryError ELSE kAmbiguousEntryError
      /\ kNoEntryError # kAmbiguousEntryError
      /\ oBuild => enPc # "emit"

C16_Witness ==
  /\ enPc = "emit"
  /\ UserNamed(kScriptEntryName) # {}
  /\ UserNamed("main") # {}
  /\ Cardinality(ZeroArgUsers) = 3
  /\ pFns[entry_].n = kScriptEntryName

-----------------------------------------------------------------------------
\* The task runtime of the emitted C: ls_spawn, await, await_all

\* The number of task slots.
LS_MAX_TASKS == 3

\* The most runtime calls of the main thread.
MaxOps == 5

TaskIds == 0..(LS_MAX_TASKS - 1)

\* A task runs a zero-argument function: it does not touch the runtime
\* ("plain") or it calls await(AwaitedId) and ends ("awaiter").
TaskBodies == {"plain", "awaiter"}

AwaitedId == 0

NoThread == [state |-> "none", body |-> "plain", pc |-> "start"]

TaskInit ==
  /\ ls_tasks = [i \in TaskIds |-> FALSE]
  /\ ls_task_count = 0
  /\ ls_task_free_ids = <<>>
  /\ ls_task_live_ids = <<>>
  /\ ls_task_live_pos = [i \in TaskIds |-> 0]
  /\ thr = [i \in TaskIds |-> NoThread]
  /\ mainPc = [op |-> "idle", id |-> 0]
  /\ mainOps = 0
  /\ spawnStamp = [i \in TaskIds |-> 0]
  /\ spawnClock = 0
  /\ allLive = <<>>
  /\ allOrder = <<>>
  /\ onlyPlain = TRUE

\* The id ls_task_alloc_id returns, -1 for none, with the free stack and
\* the count it leaves.
ls_task_alloc_id ==
  IF Len(ls_task_free_ids) > 0 THEN
    [id |-> ls_task_free_ids[Len(ls_task_free_ids)],
     free |-> SubSeq(ls_task_free_ids, 1, Len(ls_task_free_ids) - 1),
     count |-> ls_task_count]
  ELSE IF ls_task_count >= LS_MAX_TASKS THEN
    [id |-> -1, free |-> ls_task_free_ids, count |-> ls_task_count]
  ELSE
    [id |-> ls_task_count, free |-> ls_task_free_ids, count |-> ls_task_count + 1]

\* The free stack after ls_task_release_id(id).
ls_task_release_id(free, id) ==
  IF id < 0 \/ id >= LS_MAX_TASKS THEN free
  ELSE IF Len(free) < LS_MAX_TASKS THEN Append(free, id)
  ELSE free

\* The live list and the positions after ls_task_mark_live(id).
ls_task_mark_live(ids, pos, id) ==
  IF id < 0 \/ id >= LS_MAX_TASKS THEN [ids |-> ids, pos |-> pos]
  ELSE IF Len(ids) >= LS_MAX_TASKS THEN [ids |-> ids, pos |-> pos]
  ELSE [ids |-> Append(ids, id), pos |-> [pos EXCEPT ![id] = Len(ids)]]

\* The live list and the positions after ls_task_mark_dead(id): the last
\* live id moves into the place of the dead one.
ls_task_mark_dead(ids, pos, id) ==
  IF id < 0 \/ id >= LS_MAX_TASKS THEN [ids |-> ids, pos |-> pos]
  ELSE IF pos[id] < 0 \/ pos[id] >= Len(ids) THEN [ids |-> ids, pos |-> pos]
  ELSE
    LET last == ids[Len(ids)]
        moved == [ids EXCEPT ![pos[id] + 1] = last]
        posLast == [pos EXCEPT ![last] = pos[id]]
    IN [ids |-> SubSeq(moved, 1, Len(ids) - 1),
        pos |-> [posLast EXCEPT ![id] = -1]]

MainReady == mainPc.op \in {"idle", "returned_all"} /\ mainOps < MaxOps

\* ls_spawn, called by the main thread; thread creation may fail
ls_spawn(body, created) ==
  /\ MainReady
  /\ mainOps' = mainOps + 1
  /\ mainPc' = [op |-> "idle", id |-> 0]
  /\ LET a == ls_task_alloc_id
     IN IF a.id < 0 THEN
          UNCHANGED <<ls_tasks, ls_task_count, ls_task_free_ids, ls_task_live_ids,
                      ls_task_live_pos, thr, spawnStamp, spawnClock, onlyPlain>>
        ELSE IF ~created THEN
          /\ ls_task_free_ids' = ls_task_release_id(a.free, a.id)
          /\ ls_task_count' = a.count
          /\ UNCHANGED <<ls_tasks, ls_task_live_ids, ls_task_live_pos, thr,
                         spawnStamp, spawnClock, onlyPlain>>
        ELSE
          LET live == ls_task_mark_live(ls_task_live_ids, ls_task_live_pos, a.id)
          IN /\ ls_task_free_ids' = a.free
             /\ ls_task_count' = a.count
             /\ thr' = [thr EXCEPT ![a.id] = [state |-> "running", body |-> body, pc |-> "start"]]
             /\ ls_tasks' = [ls_tasks EXCEPT ![a.id] = TRUE]
             /\ ls_task_live_ids' = live.ids
             /\ ls_task_live_pos' = live.pos
             /\ spawnClock' = spawnClock + 1
             /\ spawnStamp' = [spawnStamp EXCEPT ![a.id] = spawnClock + 1]
             /\ onlyPlain' = (onlyPlain /\ body = "plain")
  /\ UNCHANGED <<allLive, allOrder>>
  /\ UNCHANGED notTaskVars

\* await returns at once: the id is out of range or the slot is not active.
AwaitReturns(id) == id < 0 \/ id >= LS_MAX_TASKS \/ ~ls_tasks[id]

\* await after the join: ls_task_mark_dead, active = 0, ls_task_release_id.
AwaitCleanup(id) ==
  LET dead == ls_task_mark_dead(ls_task_live_ids, ls_task_live_pos, id)
  IN /\ ls_task_live_ids' = dead.ids
     /\ ls_task_live_pos' = dead.pos
     /\ ls_tasks' = [ls_tasks EXCEPT ![id] = FALSE]
     /\ ls_task_free_ids' = ls_task_release_id(ls_task_free_ids, id)

\* pthread_join / WaitForSingleObject returns: the thread of the slot has
\* ended.
Joined(id) == thr[id].state = "done"

\* await(id) of the main thread up to the join
MainAwait(id) ==
  /\ MainReady
  /\ mainOps' = mainOps + 1
  /\ mainPc' = IF AwaitReturns(id) THEN [op |-> "idle", id |-> 0]
               ELSE [op |-> "join", id |-> id]
  /\ UNCHANGED <<ls_tasks, ls_task_count, ls_task_free_ids, ls_task_live_ids,
                 ls_task_live_pos, thr, spawnStamp, spawnClock, allLive,
                 allOrder, onlyPlain>>
  /\ UNCHANGED notTaskVars

\* await(id) of the main thread from the join on
MainJoin ==
  /\ mainPc.op = "join"
  /\ Joined(mainPc.id)
  /\ AwaitCleanup(mainPc.id)
  /\ mainPc' = [op |-> "idle", id |-> 0]
  /\ UNCHANGED <<ls_task_count, thr, mainOps, spawnStamp, spawnClock, allLive,
                 allOrder, onlyPlain>>
  /\ UNCHANGED notTaskVars

\* The ids of a set, oldest spawn first.
RECURSIVE SpawnOrder(_)
SpawnOrder(ids) ==
  IF ids = {} THEN <<>>
  ELSE
    LET first == CHOOSE i \in ids : \A j \in ids : spawnStamp[i] <= spawnStamp[j]
    IN <<first>> \o SpawnOrder(ids \ {first})

\* await_all is called by the main thread
MainAwaitAll ==
  /\ MainReady
  /\ mainOps' = mainOps + 1
  /\ mainPc' = [op |-> "all", id |-> 0]
  /\ allLive' = SpawnOrder({ls_task_live_ids[k] : k \in DOMAIN ls_task_live_ids})
  /\ allOrder' = <<>>
  /\ UNCHANGED <<ls_tasks, ls_task_count, ls_task_free_ids, ls_task_live_ids,
                 ls_task_live_pos, thr, spawnStamp, spawnClock, onlyPlain>>
  /\ UNCHANGED notTaskVars

\* await_all: the loop test and the await of the last live id up to the
\* join
MainAwaitAllLoop ==
  /\ mainPc.op = "all"
  /\ IF Len(ls_task_live_ids) = 0 THEN mainPc' = [op |-> "returned_all", id |-> 0]
     ELSE IF AwaitReturns(ls_task_live_ids[Len(ls_task_live_ids)]) THEN mainPc' = mainPc
     ELSE mainPc' = [op |-> "all_join", id |-> ls_task_live_ids[Len(ls_task_live_ids)]]
  /\ UNCHANGED <<ls_tasks, ls_task_count, ls_task_free_ids, ls_task_live_ids,
                 ls_task_live_pos, thr, mainOps, spawnStamp, spawnClock, allLive,
                 allOrder, onlyPlain>>
  /\ UNCHANGED notTaskVars

\* await_all: the await of the last live id from the join on
MainAwaitAllJoin ==
  /\ mainPc.op = "all_join"
  /\ Joined(mainPc.id)
  /\ AwaitCleanup(mainPc.id)
  /\ allOrder' = Append(allOrder, mainPc.id)
  /\ mainPc' = [op |-> "all", id |-> 0]
  /\ UNCHANGED <<ls_task_count, thr, mainOps, spawnStamp, spawnClock, allLive,
                 onlyPlain>>
  /\ UNCHANGED notTaskVars

\* await(AwaitedId) of the task in slot t up to the join
TaskAwait(t) ==
  /\ thr[t].state = "running"
  /\ thr[t].body = "awaiter"
  /\ thr[t].pc = "start"
  /\ thr' = [thr EXCEPT ![t].pc = IF AwaitReturns(AwaitedId) THEN "end" ELSE "join"]
  /\ UNCHANGED <<ls_tasks, ls_task_count, ls_task_free_ids, ls_task_live_ids,
                 ls_task_live_pos, mainPc, mainOps, spawnStamp, spawnClock,
                 allLive, allOrder, onlyPlain>>
  /\ UNCHANGED notTaskVars

\* await(AwaitedId) of the task in slot t from the join on; the join of
\* the calling thread itself returns at once with an error that await
\* drops
TaskJoin(t) ==
  /\ thr[t].state = "running"
  /\ thr[t].pc = "join"
  /\ Joined(AwaitedId) \/ t = AwaitedId
  /\ AwaitCleanup(AwaitedId)
  /\ thr' = [thr EXCEPT ![t].pc = "end"]
  /\ UNCHANGED <<ls_task_count, mainPc, mainOps, spawnStamp, spawnClock, allLive,
                 allOrder, onlyPlain>>
  /\ UNCHANGED notTaskVars

\* ls_task_entry: the function of the task in slot t returns
TaskFinish(t) ==
  /\ thr[t].state = "running"
  /\ thr[t].body = "plain" \/ thr[t].pc = "end"
  /\ thr' = [thr EXCEPT ![t].state = "done"]
  /\ UNCHANGED <<ls_tasks, ls_task_count, ls_task_free_ids, ls_task_live_ids,
                 ls_task_live_pos, mainPc, mainOps, spawnStamp, spawnClock,
                 allLive, allOrder, onlyPlain>>
  /\ UNCHANGED notTaskVars

SpecTaskInit == TaskInit /\ SigIdle /\ ResIdle /\ LoopIdle /\ EmitIdle /\ OptIdle /\ TcIdle /\ HashIdle /\ CliIdle /\ EntryIdle /\ DseIdle /\ InlIdle /\ WidIdle /\ CacheIdle /\ UnrollIdle /\ RecheckIdle

SpecTaskNext ==
  \/ \E body \in TaskBodies, created \in BOOLEAN : ls_spawn(body, created)
  \/ \E id \in TaskIds : MainAwait(id)
  \/ MainJoin
  \/ MainAwaitAll
  \/ MainAwaitAllLoop
  \/ MainAwaitAllJoin
  \/ \E t \in TaskIds : TaskAwait(t) \/ TaskJoin(t) \/ TaskFinish(t)

SpecTask == SpecTaskInit /\ [][SpecTaskNext]_vars

\* A sequence back to front.
Reverse(s) == [i \in DOMAIN s |-> s[Len(s) + 1 - i]]

\* C17: in a program whose tasks leave the runtime alone, an await_all
\* that has returned has awaited the tasks that were live at its call,
\* the most recently spawned first.
C17_AwaitAllLifo ==
  (mainPc.op = "returned_all" /\ onlyPlain) => allOrder = Reverse(allLive)

\* C18: an id is in the free stack at most once, and only after the task
\* that held it has finished.
C18_ReleasedOnce ==
  /\ \A i, j \in DOMAIN ls_task_free_ids :
       i # j => ls_task_free_ids[i] # ls_task_free_ids[j]
  /\ \A i \in DOMAIN ls_task_free_ids : thr[ls_task_free_ids[i]].state # "running"

\* C29: whatever the interleaving of the spawn and await calls of the main
\* thread and of the tasks, no id is held by two live tasks at a time (the
\* list of live ids names no id twice) and no id is twice in the free stack.
C29_IdsUnique ==
  /\ \A i, j \in DOMAIN ls_task_live_ids :
       i # j => ls_task_live_ids[i] # ls_task_live_ids[j]
  /\ Cardinality({ls_task_free_ids[i] : i \in DOMAIN ls_task_free_ids})
       = Len(ls_task_free_ids)

-----------------------------------------------------------------------------
\* Dead-store elimination and what the program prints

\* A function body that ends with println(x).
DseBodies == Bodies \cup {Append(b, SExpr("x")) : b \in Bodies}

\* The run of the emitted statements of a block from index i on: x holds
\* the value of the variable ("lit" or "call", "none" before its
\* declaration), out what was printed so far. println of a variable prints
\* its value, the println that propagateLocalI64Consts puts in its place
\* prints the literal.
RECURSIVE runBlock(_, _, _, _)
runBlock(b, i, env, dyn) ==
  IF i > Len(b) THEN env
  ELSE
    LET s == b[i]
    IN IF s.k \in {"Let", "Assign"} THEN
         runBlock(b, i + 1, [env EXCEPT !.x = s.v], dyn)
       ELSE IF s.k = "Expr" THEN
         runBlock(b, i + 1,
                  [env EXCEPT !.out = Append(@, IF s.n = "" THEN "lit" ELSE env.x)],
                  dyn)
       ELSE
         LET taken == IF s.c = "true" THEN TRUE
                      ELSE IF s.c = "false" THEN FALSE
                      ELSE dyn
         IN runBlock(b, i + 1, runBlock(IF taken THEN s.t ELSE s.e, 1, env, dyn), dyn)

\* What the body prints.
Printed(b, dyn) == runBlock(b, 1, [x |-> "none", out |-> <<>>], dyn).out

DseInit ==
  /\ dProg \in {b \in DseBodies : ~TypeCheckRun(b, FALSE).err}
  /\ dDyn \in BOOLEAN
  /\ dPruned = <<>>
  /\ dOutRef = <<>>
  /\ dOutOpt = <<>>
  /\ dPc = {}

\* optBlock: pruneDeadLocalStores on the function body
DsePrune ==
  /\ "pruned" \notin dPc
  /\ dPruned' = pruneDeadLocalStores(dProg, 1)
  /\ dPc' = dPc \cup {"pruned"}
  /\ UNCHANGED <<dProg, dDyn, dOutRef, dOutOpt>>
  /\ UNCHANGED notDseVars

\* The binary of the body as written runs
DseRunReference ==
  /\ "ref" \notin dPc
  /\ dOutRef' = Printed(dProg, dDyn)
  /\ dPc' = dPc \cup {"ref"}
  /\ UNCHANGED <<dProg, dDyn, dPruned, dOutOpt>>
  /\ UNCHANGED notDseVars

\* The binary of the pruned body runs
DseRunPruned ==
  /\ "pruned" \in dPc
  /\ "opt" \notin dPc
  /\ dOutOpt' = Printed(dPruned, dDyn)
  /\ dPc' = dPc \cup {"opt"}
  /\ UNCHANGED <<dProg, dDyn, dPruned, dOutRef>>
  /\ UNCHANGED notDseVars

SpecDseInit == DseInit /\ SigIdle /\ ResIdle /\ LoopIdle /\ EmitIdle /\ OptIdle /\ TcIdle /\ HashIdle /\ CliIdle /\ EntryIdle /\ TaskIdle /\ InlIdle /\ WidIdle /\ CacheIdle /\ UnrollIdle /\ RecheckIdle

SpecDseNext == DsePrune \/ DseRunReference \/ DseRunPruned

SpecDse == SpecDseInit /\ [][SpecDseNext]_vars

\* C20: a body from which pruneDeadLocalStores has removed stores prints
\* what it printed before, also when a removed store stood in a branch of
\* an if and the variable is read after the if.
C20_DeadStoreKeepsOutput ==
  {"ref", "opt"} \subseteq dPc => dOutOpt = dOutRef

-----------------------------------------------------------------------------
\* Inlining of single-return functions: inlineCands, substE and the Call
\* case of optE

\* Expressions: a variable, an integer literal, l + r, and a call f(a...).
\* e1 and e2 are builtins with a side effect, such as input_i64().
IVar(n) == [k |-> "Var", n |-> n, a |-> <<>>]
IInt == [k |-> "Int", n |-> "", a |-> <<>>]
IAdd(l, r) == [k |-> "Binary", n |-> "+", a |-> <<l, r>>]
ICall(f, a) == [k |-> "Call", n |-> f, a |-> a]

\* The return expressions of f(a, b) and of g(a).
FReturns ==
  {IVar("a"), IVar("b"), IInt, IAdd(IVar("a"), IVar("b")), IAdd(IVar("b"), IVar("a")),
   IAdd(IVar("a"), IVar("a")), ICall("g", <<IVar("a")>>)}

GReturns == {IVar("a"), IInt, IAdd(IVar("a"), IVar("a")), ICall("f", <<IVar("a"), IInt>>)}

\* The arguments of the call f(x, y) as written.
CallArgs == {ICall("e1", <<>>), ICall("e2", <<>>), IInt}

RECURSIVE hasCall(_, _)
hasCall(e, name) ==
  \/ e.k = "Call" /\ e.n = name
  \/ \E i \in DOMAIN e.a : hasCall(e.a[i], name)

\* The names of the functions optE inlines: a single return whose
\* expression does not call the function itself.
inlineCands(fns) == {f \in DOMAIN fns : ~hasCall(fns[f].body, f)}

RECURSIVE substE(_, _)
substE(e, subs) ==
  IF e.k = "Var" THEN IF e.n \in DOMAIN subs THEN subs[e.n] ELSE e
  ELSE [e EXCEPT !.a = [i \in DOMAIN e.a |-> substE(e.a[i], subs)]]

\* The parameter-to-argument map of a call of f.
ArgMap(f, args) ==
  [n \in {f.p[i] : i \in DOMAIN f.p} |-> args[CHOOSE i \in DOMAIN f.p : f.p[i] = n]]

\* The next rewrite optE makes in e, in its order (the arguments of a
\* call before the call, the left operand before the right one): the
\* first call of a candidate is replaced by the callee's return
\* expression with the arguments in the place of the parameters. ch is
\* FALSE when optE finds nothing to inline.
RECURSIVE optEStep(_, _)
optEStep(e, fns) ==
  LET inner == {i \in DOMAIN e.a : optEStep(e.a[i], fns).ch}
  IN IF inner # {} THEN
       LET i == CHOOSE j \in inner : \A h \in inner : j <= h
       IN [ch |-> TRUE, e |-> [e EXCEPT !.a[i] = optEStep(e.a[i], fns).e]]
     ELSE IF e.k = "Call" /\ e.n \in inlineCands(fns) THEN
       [ch |-> TRUE, e |-> substE(fns[e.n].body, ArgMap(fns[e.n], e.a))]
     ELSE [ch |-> FALSE, e |-> e]

\* The side effects of evaluating e in the emitted C, in order; a call
\* evaluates its arguments and then runs the callee, whose parameters are
\* values.
RECURSIVE effects(_, _, _)
RECURSIVE effectsOfAll(_, _, _, _)
effectsOfAll(es, i, fns, ltr) ==
  IF i > Len(es) THEN <<>>
  ELSE IF ltr THEN effects(es[i], fns, ltr) \o effectsOfAll(es, i + 1, fns, ltr)
  ELSE effectsOfAll(es, i + 1, fns, ltr) \o effects(es[i], fns, ltr)

effects(e, fns, ltr) ==
  IF e.k = "Call" THEN
    effectsOfAll(e.a, 1, fns, ltr)
      \o (IF e.n \in DOMAIN fns THEN effects(fns[e.n].body, fns, ltr) ELSE <<e.n>>)
  ELSE effectsOfAll(e.a, 1, fns, ltr)

InlInit ==
  /\ \E fr \in FReturns, gr \in GReturns :
       iFns = [f |-> [p |-> <<"a", "b">>, body |-> fr], g |-> [p |-> <<"a">>, body |-> gr]]
  /\ \E x \in CallArgs, y \in CallArgs : iOrig = ICall("f", <<x, y>>)
  /\ iExpr = iOrig
  /\ iLtr \in BOOLEAN
  /\ iRef = <<>>
  /\ iTrace = <<>>
  /\ iPc = "optE"

\* optE: one call is inlined
OptEInline ==
  /\ iPc = "optE"
  /\ optEStep(iExpr, iFns).ch
  /\ iExpr' = optEStep(iExpr, iFns).e
  /\ UNCHANGED <<iFns, iOrig, iLtr, iRef, iTrace, iPc>>
  /\ UNCHANGED notInlVars

\* optE returns: no call of a candidate is left
OptEReturn ==
  /\ iPc = "optE"
  /\ ~optEStep(iExpr, iFns).ch
  /\ iPc' = "optimized"
  /\ UNCHANGED <<iFns, iOrig, iExpr, iLtr, iRef, iTrace>>
  /\ UNCHANGED notInlVars

\* The binaries built without and with the optimizer run
InlRun ==
  /\ iPc = "optimized"
  /\ iRef' = effects(iOrig, iFns, iLtr)
  /\ iTrace' = effects(iExpr, iFns, iLtr)
  /\ iPc' = "ran"
  /\ UNCHANGED <<iFns, iOrig, iExpr, iLtr>>
  /\ UNCHANGED notInlVars

SpecInlineInit == InlInit /\ SigIdle /\ ResIdle /\ LoopIdle /\ EmitIdle /\ OptIdle /\ TcIdle /\ HashIdle /\ CliIdle /\ EntryIdle /\ TaskIdle /\ DseIdle /\ WidIdle /\ CacheIdle /\ UnrollIdle /\ RecheckIdle

SpecInlineNext == OptEInline \/ OptEReturn \/ InlRun

SpecInline == SpecInlineInit /\ [][SpecInlineNext]_vars

\* optE is a running computation: it goes on while it has a step.
SpecInlineLive == SpecInline /\ WF_vars(SpecInlineNext)

\* C21: after inlining, the side effects of the arguments happen once
\* each and in the order of the call as written.
C21_ArgumentsOnceInOrder == iPc = "ran" => iTrace = iRef

\* C24: optE comes to an end on every program, also when single-return
\* functions call one another.
C24_OptimizeTerminates == <>(iPc = "ran")


(***************************************************************************)
(* SpecWidth: a for loop whose start, stop and step are literals anywhere  *)
(* in the int64_t range and whose body is acc = acc + (a*i + b). optBlock  *)
(* computes its trip count and folds it, EmitC writes the closed form for  *)
(* a loop optBlock kept, and the loop as written is run for comparison.    *)
(* The widths are scaled: int64_t has I64Bits bits, __int128 twice as many.*)
(***************************************************************************)
I64Bits == 4

I64Min == -(2^(I64Bits - 1))

I64Max == 2^(I64Bits - 1) - 1

I64 == I64Min..I64Max

I128 == (-(2^(2 * I64Bits - 1)))..(2^(2 * I64Bits - 1) - 1)

\* std::optional<int64_t> as a sequence of at most one value.
checkedI128ToI64(v) == IF v < I64Min \/ v > I64Max THEN <<>> ELSE <<v>>

\* The conversion (int64_t)v and (__typeof__(acc))v of an __int128: the
\* value modulo 2^64.
castI64(v) == ((v - I64Min) % (2^I64Bits)) + I64Min

\* The outcomes of int64_t arithmetic whose exact intermediate results are
\* steps and whose exact result is v: v, or after a signed overflow, which is
\* undefined, whatever the build makes of it.
signedI64(steps, v) == IF \A x \in steps : x \in I64 THEN {v} ELSE I64

\* tripCount on int64_t: (stop - start + step - 1) / step and its mirror
\* image are computed in int64_t.
tripCountI64(start, stop, step) ==
  IF step > 0
    THEN IF start >= stop THEN {0}
         ELSE signedI64({stop - start, stop - start + step, stop - start + step - 1},
                        CDiv(stop - start + step - 1, step))
  ELSE IF start <= stop THEN {0}
  ELSE signedI64({-step, start - stop, start - stop + (-step), start - stop + (-step) - 1},
                 CDiv(start - stop + (-step) - 1, -step))

\* The emitted runtime function: the count is computed in __int128 and
\* converted to int64_t; pos = -step is computed in int64_t.
ls_trip_count_runtime(start, stop, step) ==
  IF step > 0
    THEN IF start >= stop THEN {0}
         ELSE {castI64(CDiv((stop - start) + step - 1, step))}
  ELSE IF step < 0
    THEN IF start <= stop THEN {0}
         ELSE IF -step \in I64 THEN {castI64(CDiv((start - stop) + (-step) - 1, -step))}
         ELSE I64
  ELSE {0}

\* The trip count, the series sum, the coefficient products and the
\* accumulator delta of the closed form of the loop, as integers.
seriesSum(lp, N) == CDiv(N * ((2 * lp.start) + ((N - 1) * lp.step)), 2)

accDelta(lp, N) == lp.a * seriesSum(lp, N) + lp.b * N

closedFormValues(lp) ==
  LET N == tripCount(lp.start, lp.stop, lp.step)
  IN {N, seriesSum(lp, N), lp.a * seriesSum(lp, N), lp.b * N, accDelta(lp, N)}

\* The single-reduction fold of optBlock for a count tc: the delta it puts
\* in the program, if any. The sum and the delta are computed in __int128,
\* whose overflow is undefined, and checkedI128ToI64 decides.
foldAffine(lp, tc) ==
  LET term == (2 * lp.start) + ((tc - 1) * lp.step)
      steps == {2 * lp.start, (tc - 1) * lp.step, term, tc * term,
                lp.a * seriesSum(lp, tc), lp.b * tc, accDelta(lp, tc)}
  IN IF \A x \in steps : x \in I128
       THEN {checkedI128ToI64(accDelta(lp, tc))}
       ELSE {<<>>} \cup {<<v>> : v \in I64}

WidInit ==
  /\ \E st \in I64, en \in I64, sp \in I64 \ {0}, b \in {0, 1} :
       wLoop = [start |-> st, stop |-> en, step |-> sp, a |-> 1, b |-> b]
  /\ wTc = 0
  /\ wHow = ""
  /\ wRt = <<>>
  /\ wI = 0
  /\ wIters = 0
  /\ wPc = "optBlock"

\* The For case of optBlock on the loop: tripCount; a loop of no rounds is
\* erased; for a positive count the single-reduction fold computes the delta
\* in __int128 and replaces the loop by acc = acc + delta when
\* checkedI128ToI64 has a value; otherwise the loop stays.
WidOptBlock ==
  /\ wPc = "optBlock"
  /\ \E tc \in tripCountI64(wLoop.start, wLoop.stop, wLoop.step) :
       /\ wTc' = tc
       /\ IF tc = 0 THEN wHow' = "erased"
          ELSE IF tc > 0
            THEN \E deltaI \in foldAffine(wLoop, tc) :
                   wHow' = IF deltaI # <<>> THEN "folded" ELSE "for"
          ELSE wHow' = "for"
  /\ wPc' = "emit"
  /\ UNCHANGED <<wLoop, wRt, wI, wIters>>
  /\ UNCHANGED notWidVars

\* The For case of EmitC::stmt on a loop optBlock kept: affineReductionInfo
\* matches the body, and the emitted C is the call of ls_trip_count_runtime
\* and, under iters > 0, the closed form in __int128 converted to the type of
\* acc; no for statement is written. Nothing is left of an erased loop, and
\* a folded one is the assignment optBlock made.
WidEmit ==
  /\ wPc = "emit"
  /\ IF wHow = "for"
       THEN /\ \E rt \in ls_trip_count_runtime(wLoop.start, wLoop.stop, wLoop.step) :
                 wRt' = <<rt>>
            /\ wHow' = "closed"
       ELSE UNCHANGED <<wRt, wHow>>
  /\ wI' = wLoop.start
  /\ wPc' = "loop"
  /\ UNCHANGED <<wLoop, wTc, wIters>>
  /\ UNCHANGED notWidVars

\* One round of the loop as written, for (i = start; i < stop; i += step)
\* or its mirror image: a round whose i += step leaves int64_t is undefined.
WidLoopIter ==
  /\ wPc = "loop"
  /\ IF wLoop.step > 0 THEN wI < wLoop.stop ELSE wI > wLoop.stop
  /\ wIters' = wIters + 1
  /\ IF wI + wLoop.step \in I64
       THEN wI' = wI + wLoop.step /\ wPc' = wPc
       ELSE wI' = wI /\ wPc' = "undefined"
  /\ UNCHANGED <<wLoop, wTc, wHow, wRt>>
  /\ UNCHANGED notWidVars

WidLoopExit ==
  /\ wPc = "loop"
  /\ ~(IF wLoop.step > 0 THEN wI < wLoop.stop ELSE wI > wLoop.stop)
  /\ wPc' = "done"
  /\ UNCHANGED <<wLoop, wTc, wHow, wRt, wI, wIters>>
  /\ UNCHANGED notWidVars

SpecWidthInit == WidInit /\ SigIdle /\ ResIdle /\ LoopIdle /\ EmitIdle /\ OptIdle /\ TcIdle /\ HashIdle /\ CliIdle /\ EntryIdle /\ TaskIdle /\ DseIdle /\ InlIdle /\ CacheIdle /\ UnrollIdle /\ RecheckIdle

SpecWidthNext == WidOptBlock \/ WidEmit \/ WidLoopIter \/ WidLoopExit

SpecWidth == SpecWidthInit /\ [][SpecWidthNext]_vars

\* C25: when the trip count, the series sum, a coefficient product or the
\* accumulator delta of the closed form does not fit in i64, no closed form
\* takes the place of the loop: the loop itself is what runs.
C25_OverflowKeepsLoop ==
  (wPc \in {"loop", "done"} /\ \E v \in closedFormValues(wLoop) : v \notin I64) =>
    wHow = "for"

\* C26: for constant start, stop and non-zero step anywhere in the i64 range
\* the computed trip count, at compile time and at run time, is the number
\* of iterations the loop as written executes, and the loop is deleted
\* exactly when that number is 0.
C26_TripCountExact ==
  wPc = "done" =>
    /\ wTc = wIters
    /\ \A k \in DOMAIN wRt : wRt[k] = wIters
    /\ (wHow = "erased") <=> (wIters = 0)


(***************************************************************************)
(* SpecCache: main run several times on one cache directory. A compilation *)
(* whose key names a bundle of the directory hands the C text of the       *)
(* bundle to finish(); any other compiles and, unless --no-cache is given, *)
(* writes its C text under its key.                                        *)
(***************************************************************************)
\* The most compilations in a row.
MaxCompiles == 2

\* The command lines: input files, --passes, the --<name> flags that are
\* active, the custom CLI tokens, --su-session, --no-cache.
CommandLines ==
  [inputs : {<<PathA>>, <<PathA, PathAB>>}, passes : PassCounts,
   activeCliFlags : {<<>>, <<"v">>}, cliCustomTokens : {<<>>, <<"x">>},
   superuserSession : BOOLEAN, noCache : BOOLEAN]

\* The arguments main gives computeBuildConfigHash.
buildConfig(o) ==
  [inputs |-> o.inputs, cc |-> <<99, 99>>, backend |-> <<99>>, maxSpeed |-> FALSE,
   passes |-> o.passes, target |-> <<>>, sysroot |-> <<>>, linker |-> <<>>]

\* The C text of EmitC::run, by the parts that depend on the command line:
\* the functions of the sources after optimize with the pass count, the
\* initial value of ls_su_enabled, the array ls_cli_tokens and the calls of
\* the flag functions in the entry wrapper.
emitRun(o) ==
  [fns |-> [src |-> [i \in DOMAIN o.inputs |-> readFile(o.inputs[i])], passes |-> o.passes],
   ls_su_enabled |-> o.superuserSession,
   ls_cli_tokens |-> o.cliCustomTokens,
   wrapper |-> o.activeCliFlags]

CacheInit ==
  /\ ccFiles = {}
  /\ ccCmd = <<>>
  /\ ccOut = <<>>
  /\ ccServed = FALSE
  /\ ccRuns = 0

\* main on the command line o.
Compile(o) ==
  /\ ccRuns < MaxCompiles
  /\ ccRuns' = ccRuns + 1
  /\ ccCmd' = o
  /\ LET incremental == ~o.noCache
         key == computeBuildConfigHash(buildConfig(o))
         found == {f \in ccFiles : f.key = key}
     IN IF incremental /\ found # {}
          THEN /\ ccOut' = (CHOOSE f \in found : TRUE).c
               /\ ccServed' = TRUE
               /\ UNCHANGED ccFiles
          ELSE /\ ccOut' = emitRun(o)
               /\ ccServed' = FALSE
               /\ ccFiles' = IF incremental
                               THEN (ccFiles \ found) \cup {[key |-> key, c |-> emitRun(o)]}
                               ELSE ccFiles
  /\ UNCHANGED notCacheVars

SpecCacheInit == CacheInit /\ SigIdle /\ ResIdle /\ LoopIdle /\ EmitIdle /\ OptIdle /\ TcIdle /\ HashIdle /\ CliIdle /\ EntryIdle /\ TaskIdle /\ DseIdle /\ InlIdle /\ WidIdle /\ UnrollIdle /\ RecheckIdle

SpecCacheNext == \E o \in CommandLines : Compile(o)

SpecCache == SpecCacheInit /\ [][SpecCacheNext]_vars

\* C28: the C text of a compilation served from the cache is the C text a
\* fresh compilation of the same command line emits.
C28_CacheHitIsFresh ==
  ccServed => ccOut = emitRun(ccCmd)


(***************************************************************************)
(* SpecUnroll: a function body `declare acc = 0`, possibly `declare i =    *)
(* 100`, a for loop over i with literal bounds, `println(acc)` and, where  *)
(* i is declared, `println(i)`. optBlock unrolls the loop, the program is  *)
(* type-checked again, and both the program as written and the optimized   *)
(* one are run. The bodies are those none of the closed-form cases of      *)
(* optBlock takes: these want assignments only, or one declaration and one *)
(* assignment.                                                             *)
(***************************************************************************)
UVar(n) == [k |-> "Var", n |-> n, a |-> <<>>, v |-> 0]
ULit(v) == [k |-> "Int", n |-> "", a |-> <<>>, v |-> v]
UCall(f) == [k |-> "Call", n |-> f, a |-> <<>>, v |-> 0]
UAdd(l, r) == [k |-> "Binary", n |-> "+", a |-> <<l, r>>, v |-> 0]

ULet(n, v) == [k |-> "Let", n |-> n, v |-> v]
UAssign(n, v) == [k |-> "Assign", n |-> n, v |-> v]
UPrintln(v) == [k |-> "Expr", n |-> "println", v |-> v]

\* The statements of the modelled bodies: acc = acc + i, declare t =
\* clock_ms(), acc = acc + t, i = i + 1, println(i).
UnrollStmts ==
  { UAssign("acc", UAdd(UVar("acc"), UVar("i"))),
    ULet("t", UCall("clock_ms")),
    UAssign("acc", UAdd(UVar("acc"), UVar("t"))),
    UAssign("i", UAdd(UVar("i"), ULit(1))),
    UPrintln(UVar("i")) }

\* The most statements of a body.
MaxBody == 3

\* The variables an expression reads.
RECURSIVE exprVars(_)
exprVars(e) ==
  IF e.k = "Var" THEN {e.n}
  ELSE UNION {exprVars(e.a[j]) : j \in DOMAIN e.a}

\* TypeCheck::stmt along a block from statement k on, l the locals in scope:
\* the first error, "" for none.
RECURSIVE checkBlock(_, _, _)
checkBlock(b, k, l) ==
  IF k > Len(b) THEN ""
  ELSE IF b[k].k = "Let" /\ b[k].n \in l THEN "already declared"
  ELSE IF b[k].k = "Assign" /\ b[k].n \notin l THEN "assignment to undeclared variable"
  ELSE IF ~(exprVars(b[k].v) \subseteq l) THEN "unknown variable"
  ELSE checkBlock(b, k + 1, IF b[k].k = "Let" THEN l \cup {b[k].n} ELSE l)

\* The locals of the enclosing block at the loop.
outerLocals(lp) == IF lp.outerI THEN {"acc", "i"} ELSE {"acc"}

hasLoopControlStmt(b) == \E j \in DOMAIN b : b[j].k \in {"Break", "Continue"}

hasDeclNamed(b, name) == \E j \in DOMAIN b : b[j].k = "Let" /\ b[j].n = name

\* The shapes the closed-form cases of optBlock look at.
closedFormShape(b) ==
  \/ \A j \in DOMAIN b : b[j].k = "Assign"
  \/ Len(b) = 2 /\ b[1].k = "Let" /\ b[2].k = "Assign"

substStmtVar(s, var, value) == [s EXCEPT !.v = substE(s.v, [x \in {var} |-> ULit(value)])]

substBlockVar(b, var, value) == [j \in DOMAIN b |-> substStmtVar(b[j], var, value)]

\* The copies of the body for the rounds iter, iter + 1, ... of tc.
RECURSIVE unrollFrom(_, _, _, _)
unrollFrom(lp, iter, tc, cur) ==
  IF iter >= tc THEN <<>>
  ELSE substBlockVar(lp.body, "i", cur) \o unrollFrom(lp, iter + 1, tc, cur + lp.step)

UnrollInit ==
  /\ \E st \in 0..1, en \in 0..3, sp \in 1..2, outerI \in BOOLEAN,
        body \in UNION {[1..n -> UnrollStmts] : n \in 1..MaxBody} :
       /\ ~closedFormShape(body)
       /\ checkBlock(body, 1, {"acc", "i"}) = ""
       /\ uLoop = [start |-> st, stop |-> en, step |-> sp, body |-> body, outerI |-> outerI]
  /\ uRep = <<>>
  /\ uKind = ""
  /\ uErr = ""
  /\ uRef = <<>>
  /\ uOut = <<>>
  /\ uPc = "optBlock"

\* The For case of optBlock.
UnrollOptBlock ==
  /\ uPc = "optBlock"
  /\ LET tc == tripCount(uLoop.start, uLoop.stop, uLoop.step)
     IN IF tc = 0
          THEN uKind' = "erased" /\ uRep' = <<>>
        ELSE IF /\ tc > 0 /\ tc <= 8 /\ ~closedFormShape(uLoop.body)
                /\ ~hasLoopControlStmt(uLoop.body) /\ ~hasDeclNamed(uLoop.body, "i")
          THEN uKind' = "unrolled" /\ uRep' = unrollFrom(uLoop, 0, tc, uLoop.start)
        ELSE uKind' = "for" /\ uRep' = <<>>
  /\ uPc' = "check"
  /\ UNCHANGED <<uLoop, uErr, uRef, uOut>>
  /\ UNCHANGED notUnrollVars

\* main: the type-check after optimize. The copies of an unrolled body are
\* statements of the enclosing block.
UnrollRecheck ==
  /\ uPc = "check"
  /\ uErr' = IF uKind = "unrolled" THEN checkBlock(uRep, 1, outerLocals(uLoop)) ELSE ""
  /\ uPc' = IF uErr' = "" THEN "run" ELSE "error"
  /\ UNCHANGED <<uLoop, uRep, uKind, uRef, uOut>>
  /\ UNCHANGED notUnrollVars

\* The value of an expression of the emitted C; clock_ms() returns 7.
RECURSIVE evalU(_, _)
evalU(e, env) ==
  IF e.k = "Var" THEN env[e.n]
  ELSE IF e.k = "Int" THEN e.v
  ELSE IF e.k = "Call" THEN 7
  ELSE evalU(e.a[1], env) + evalU(e.a[2], env)

\* The emitted statements of a block from k on, on the variables env and
\* the printed lines out.
RECURSIVE execU(_, _, _)
execU(b, k, st) ==
  IF k > Len(b) THEN st
  ELSE IF b[k].k = "Expr"
    THEN execU(b, k + 1, [st EXCEPT !.out = Append(@, evalU(b[k].v, st.env))])
  ELSE execU(b, k + 1, [st EXCEPT !.env[b[k].n] = evalU(b[k].v, st.env)])

\* The emitted for statement: i is a variable of the loop, the body a block.
RECURSIVE runFor(_, _, _)
runFor(lp, i, st) ==
  IF i >= lp.stop THEN st
  ELSE LET after == execU(lp.body, 1, [st EXCEPT !.env.i = i])
       IN runFor(lp, after.env.i + lp.step, after)

\* println(acc) and, where the enclosing block declares i, println(i).
printAfter(lp, st) ==
  IF lp.outerI THEN st.out \o <<st.env.acc, st.env.i>> ELSE Append(st.out, st.env.acc)

UnrollRun ==
  /\ uPc = "run"
  /\ LET st0 == [env |-> [acc |-> 0, i |-> 100, t |-> 0], out |-> <<>>]
         loop == runFor(uLoop, uLoop.start, st0)
         ref == [loop EXCEPT !.env.i = 100]
     IN /\ uRef' = printAfter(uLoop, ref)
        /\ uOut' = IF uKind = "unrolled" THEN printAfter(uLoop, execU(uRep, 1, st0))
                   ELSE IF uKind = "erased" THEN printAfter(uLoop, st0)
                   ELSE printAfter(uLoop, ref)
  /\ uPc' = "done"
  /\ UNCHANGED <<uLoop, uRep, uKind, uErr>>
  /\ UNCHANGED notUnrollVars

SpecUnrollInit == UnrollInit /\ SigIdle /\ ResIdle /\ LoopIdle /\ EmitIdle /\ OptIdle /\ TcIdle /\ HashIdle /\ CliIdle /\ EntryIdle /\ TaskIdle /\ DseIdle /\ InlIdle /\ WidIdle /\ CacheIdle /\ RecheckIdle

SpecUnrollNext == UnrollOptBlock \/ UnrollRecheck \/ UnrollRun

SpecUnroll == SpecUnrollInit /\ [][SpecUnrollNext]_vars

\* C23: a loop of at most 8 rounds whose body has no loop-control statement
\* and does not declare the loop variable again is replaced by the copies of
\* its body, and the program still compiles and prints what the program as
\* written prints.
C23_UnrollSameEffect ==
  uKind = "unrolled" =>
    /\ uPc # "error"
    /\ uPc = "done" => uOut = uRef

(***************************************************************************)
(* SpecRecheck: a call f(arg) of an overloaded function f, from tc.run()   *)
(* through optimize() to tc2.run(). The bodies of the overloads are print  *)
(* statements, so none of them is an inlining candidate, and the program   *)
(* declares no operator override.                                          *)
(***************************************************************************)
RVar(n) == [k |-> "Var", n |-> n, a |-> <<>>, v |-> 0]
RInt(v) == [k |-> "Int", n |-> "", a |-> <<>>, v |-> v]
\* A float literal; the modelled literals have integral values.
RFloat(v) == [k |-> "Float", n |-> "", a |-> <<>>, v |-> v]
RBin(op, l, r) == [k |-> "Binary", n |-> op, a |-> <<l, r>>, v |-> 0]

\* The locals of the calling function and their declared types.
RecheckLocals == [i |-> "I64", x |-> "F64", h |-> "I32"]

isFloat(t) == t \in {"F32", "F64"}

promote(a, b) ==
  IF isFloat(a) \/ isFloat(b)
    THEN (IF a = "F64" \/ b = "F64" THEN "F64" ELSE "F32")
  ELSE (IF a = "I64" \/ b = "I64" THEN "I64" ELSE "I32")

\* TypeCheck::expr on literals, variables and + - * of numeric operands:
\* the type mark() stores in the node.
RECURSIVE exprInf(_, _)
exprInf(e, l) ==
  IF e.k = "Int" THEN "I64"
  ELSE IF e.k = "Float" THEN "F64"
  ELSE IF e.k = "Var" THEN l[e.n]
  ELSE promote(exprInf(e.a[1], l), exprInf(e.a[2], l))

isLit(e) == e.k \in {"Int", "Float"}

isZero(e) == isLit(e) /\ e.v = 0

isOne(e) == isLit(e) /\ e.v = 1

arith(op, l, r) == IF op = "+" THEN l + r ELSE IF op = "-" THEN l - r ELSE l * r

\* foldBin on + - *: <<>> when it returns false, else the literal that
\* replaces the node; two integer literals give an integer literal, any
\* other pair of numeric literals a float literal.
foldBin(n) ==
  LET l == n.a[1]
      r == n.a[2]
  IN IF l.k = "Int" /\ r.k = "Int" THEN <<RInt(arith(n.n, l.v, r.v))>>
     ELSE IF isLit(l) /\ isLit(r) THEN <<RFloat(arith(n.n, l.v, r.v))>>
     ELSE <<>>

\* optE on an argument expression: ch is its return value, e the expression
\* left in its place. The Sub case reads the type the first check marked
\* on the node.
RECURSIVE optE(_, _)
optE(e, locals) ==
  IF e.k # "Binary" THEN [ch |-> FALSE, e |-> e]
  ELSE LET ol == optE(e.a[1], locals)
           or == optE(e.a[2], locals)
           n == [e EXCEPT !.a = <<ol.e, or.e>>]
           l == ol.e
           r == or.e
           f == foldBin(n)
       IN IF f # <<>> THEN [ch |-> TRUE, e |-> f[1]]
          ELSE IF n.n = "+" /\ isZero(r) THEN [ch |-> TRUE, e |-> l]
          ELSE IF n.n = "+" /\ isZero(l) THEN [ch |-> TRUE, e |-> r]
          ELSE IF n.n = "-" /\ isZero(r) THEN [ch |-> TRUE, e |-> l]
          ELSE IF n.n = "-" /\ l.k = "Var" /\ r.k = "Var" /\ l.n = r.n
                  /\ exprInf(e, locals) = "I64"
            THEN [ch |-> TRUE, e |-> RInt(0)]
          ELSE IF n.n = "*" /\ isOne(r) THEN [ch |-> TRUE, e |-> l]
          ELSE IF n.n = "*" /\ isOne(l) THEN [ch |-> TRUE, e |-> r]
          ELSE [ch |-> ol.ch \/ or.ch, e |-> n]

\* optE, Call case: the arguments are optimized in order; the callee is no
\* inlining candidate, so the call itself stays.
optECall(c, locals) ==
  [ch |-> \E j \in DOMAIN c.a : optE(c.a[j], locals).ch,
   e |-> [c EXCEPT !.a = [j \in DOMAIN c.a |-> optE(c.a[j], locals).e]]]

\* optimize on the statement holding the call: passes until one changes
\* nothing, at most `passes` of them.
RECURSIVE optimize(_, _, _)
optimize(c, locals, passes) ==
  IF passes = 0 THEN c
  ELSE LET o == optECall(c, locals)
       IN IF o.ch THEN optimize(o.e, locals, passes - 1) ELSE c

\* The parser over the declarations of `name` with the parameter lists pls
\* (pairwise different): the first keeps the public name as its symbol, each
\* later one gets the next mangled symbol; all carry the public name as
\* sourceName.
registerTopLevelOverload(name, pls) ==
  [j \in DOMAIN pls |->
     MakeFn(IF j = 1 THEN name ELSE mangleTopLevelOverloadSymbol(name, j - 1),
            name, pls[j], "Void", <<>>)]

\* TypeCheck::expr, generic call case, with the signatures acc that collect
\* gathered: the candidate resolveOverload returns for the group named by
\* the call, else the signature registered under that very name, then the
\* requirements on the chosen candidate. kind is "ok" or "error".
exprCall(c, locals, acc, su) ==
  LET argTypes == [j \in DOMAIN c.a |-> exprInf(c.a[j], locals)]
      r == IF c.f \in DOMAIN acc.ov THEN resolveOverload(acc.ov[c.f], argTypes, su)
           ELSE [kind |-> "none", best |-> 0, warn |-> FALSE]
  IN IF r.kind = "error" THEN [kind |-> "error", symbol |-> "", err |-> "ambiguous overload"]
     ELSE IF r.kind = "none" /\ c.f \notin DOMAIN acc.sig
       THEN [kind |-> "error", symbol |-> "", err |-> "unknown function"]
     ELSE LET cand == IF r.kind = "ok" THEN acc.ov[c.f][r.best]
                      ELSE [symbol |-> c.f, sig |-> acc.sig[c.f]]
              failures == genericCallFailures(cand, argTypes, {})
          IN IF failures # {} /\ ~su
               THEN [kind |-> "error", symbol |-> "", err |-> "call requirement"]
             ELSE [kind |-> "ok", symbol |-> cand.symbol, err |-> ""]

\* The most overloads of f a modelled program declares.
MaxOverloads == 2

RecheckParamLists == {<<"I32">>, <<"I64">>, <<"F64">>}

RecheckLeaves ==
  {RVar("i"), RVar("x"), RVar("h"), RInt(0), RInt(1), RFloat(0), RFloat(1)}

\* The argument of the call: a leaf, or one + - * of two leaves.
RecheckArgs ==
  RecheckLeaves
    \cup {RBin(op, l, r) : op \in {"+", "-", "*"}, l \in RecheckLeaves, r \in RecheckLeaves}

RecheckInit ==
  /\ rcFns \in {registerTopLevelOverload("f", q) :
                  q \in {s \in SeqsUpTo(RecheckParamLists, MaxOverloads) :
                           /\ Len(s) >= 1
                           /\ \A j, k \in DOMAIN s : j # k => s[j] # s[k]}}
  /\ rcSu \in BOOLEAN
  /\ rcCall \in {[f |-> "f", a |-> <<e>>] : e \in RecheckArgs}
  /\ rcFirst = ""
  /\ rcErr = ""
  /\ rcPc = "type-check"

\* main: tc.run() on the parsed program; the call is rewritten to the symbol
\* of the chosen candidate.
RecheckFirst ==
  /\ rcPc = "type-check"
  /\ LET r == exprCall(rcCall, RecheckLocals, collect(rcFns, rcSu), rcSu)
     IN /\ rcCall' = IF r.kind = "ok" THEN [rcCall EXCEPT !.f = r.symbol] ELSE rcCall
        /\ rcFirst' = r.symbol
        /\ rcErr' = r.err
        /\ rcPc' = IF r.kind = "ok" THEN "optimize" ELSE "error"
  /\ UNCHANGED <<rcFns, rcSu>>
  /\ UNCHANGED notRecheckVars

\* main: optimize(p, passes) with the default pass count.
RecheckOptimize ==
  /\ rcPc = "optimize"
  /\ rcCall' = optimize(rcCall, RecheckLocals, kPasses)
  /\ rcPc' = "re-check"
  /\ UNCHANGED <<rcFns, rcSu, rcFirst, rcErr>>
  /\ UNCHANGED notRecheckVars

\* main: tc2.run(), a new TypeCheck on the optimized program.
RecheckSecond ==
  /\ rcPc = "re-check"
  /\ LET r == exprCall(rcCall, RecheckLocals, collect(rcFns, rcSu), rcSu)
     IN /\ rcCall' = IF r.kind = "ok" THEN [rcCall EXCEPT !.f = r.symbol] ELSE rcCall
        /\ rcErr' = r.err
        /\ rcPc' = IF r.kind = "ok" THEN "done" ELSE "error"
  /\ UNCHANGED <<rcFns, rcSu, rcFirst>>
  /\ UNCHANGED notRecheckVars

SpecRecheckInit == RecheckInit /\ SigIdle /\ ResIdle /\ LoopIdle /\ EmitIdle /\ OptIdle /\ TcIdle /\ HashIdle /\ CliIdle /\ EntryIdle /\ TaskIdle /\ DseIdle /\ InlIdle /\ WidIdle /\ CacheIdle /\ UnrollIdle

SpecRecheckNext == RecheckFirst \/ RecheckOptimize \/ RecheckSecond

SpecRecheck == SpecRecheckInit /\ [][SpecRecheckNext]_vars

\* C27: after the type-check that follows optimize, a call names the
\* function symbol the first type-check wrote into it, whatever optimize did
\* to its argument.
C27_RecheckKeepsSymbol ==
  rcPc = "done" => rcCall.f = rcFirst

====
